---- MODULE Spec2Model ----
(***************************************************************************)
(* Model of soundcharts/api_util.py: the process-wide transport            *)
(* configuration (setup), the single-request executor (request_wrapper)    *)
(* and the period/pagination loop (request_looper).                        *)
(*                                                                         *)
(* The HTTP server is the environment: every attempt of request_wrapper    *)
(* draws its outcome (a status with a body, or a transport exception)      *)
(* nondeterministically.  w_log is the trace of what one call of           *)
(* request_wrapper did on the wire and on the clock: one entry per HTTP    *)
(* request issued and one per time.sleep.                                  *)
(***************************************************************************)
EXTENDS Integers, Sequences, FiniteSets, TLC

VARIABLES
    HEADERS,               \* global HEADERS: None or the auth header dict
    BASE_URL,              \* global BASE_URL
    MAX_RETRIES,           \* global MAX_RETRIES
    RETRY_DELAY,           \* global RETRY_DELAY
    EXCEPTION_LOG_LEVEL,   \* global EXCEPTION_LOG_LEVEL
    w_pc,                  \* request_wrapper: "idle" | "attempt" | "done"
    w_args,                \* request_wrapper: the arguments of the call
    w_attempt,             \* request_wrapper: loop variable `attempt`
    w_headers,             \* request_wrapper: local `headers`
    w_log_msg,             \* request_wrapper: local `log_msg` ("" = unbound)
    w_response,            \* request_wrapper: locals `response` and `message`
    w_log,                 \* trace of the call: requests issued and sleeps
    w_result,              \* how the call ended: value returned or exception
    l_pc,                  \* request_looper: "idle" | "wait" | "done"
    l_in,                  \* request_looper: the arguments of the call
    l,                     \* request_looper: its local variables
    l_calls,               \* the request_wrapper calls the looper has made
    l_fetched,             \* the values those calls returned, in order
    l_result,              \* how the looper call ended
    s_input,               \* sort_items_by_date: the result first passed in
    s_result,              \* sort_items_by_date: the result as it is now
    s_runs,                \* the calls made on it: direction and outcome
    m_body,                \* message extraction: the error body received
    m_message,             \* message extraction: local `message`
    m_done                 \* message extraction: lines 155-163 have run

wvars == <<w_pc, w_args, w_attempt, w_headers, w_log_msg, w_response, w_log,
          w_result>>
cvars == <<HEADERS, BASE_URL, MAX_RETRIES, RETRY_DELAY, EXCEPTION_LOG_LEVEL>>
lvars == <<l_pc, l_in, l, l_calls, l_fetched, l_result>>
svars == <<s_input, s_result, s_runs>>
mvars == <<m_body, m_message, m_done>>
vars == <<cvars, wvars, lvars, svars, mvars>>

-----------------------------------------------------------------------------
(* Python values *)

\* Python's None where the model needs an optional integer
NONE == -999

\* logging.WARNING, logging.ERROR, logging.CRITICAL
WARNING == 30
ERROR == 40
CRITICAL == ERROR + 10

\* values of MAX_RETRIES and RETRY_DELAY when the module is loaded; the `def` of
\* request_wrapper evaluates its default arguments at that moment
LOAD_MAX_RETRIES == 5
LOAD_RETRY_DELAY == 10

\* time.sleep(30) of the request-count throttle
THROTTLE_SLEEP == 30

\* HTTPStatus members the executor dispatches on
HTTP_OK == 200
HTTP_NOT_FOUND == 404
HTTP_TOO_MANY_REQUESTS == 429
HTTP_FORBIDDEN == 403
HTTP_UNAUTHORIZED == 401
ServerErrorStatuses == {500, 502, 503, 504}
AuthStatuses == {HTTP_TOO_MANY_REQUESTS, HTTP_FORBIDDEN, HTTP_UNAUTHORIZED}

\* a date string "YYYY-MM-DD": the day it names and whether it is written the
\* way strftime("%Y-%m-%d") writes it (zero-padded); isNone: None
NoDate == [isNone |-> TRUE, day |-> 0, padded |-> TRUE]
Date(d) == [isNone |-> FALSE, day |-> d, padded |-> TRUE]

-----------------------------------------------------------------------------
(* Bounds of the model *)

\* setup(max_retries=n) is called with n in 0..MaxSetupRetries
MaxSetupRetries == 1
\* request_wrapper(max_retries=n) is called with n in 0..MaxCallRetries
MaxCallRetries == 2

\* values setup() is called with
SetupDelays == {3}
SetupLevels == {WARNING, ERROR, CRITICAL}
AppIds == {"app-1", "app-2"}
ApiKeys == {"key-1"}
BaseUrls == {"https://customer.api.soundcharts.com"}

\* values request_wrapper is called with directly
CallDelays == {NONE, 7}
Methods == {"None", "delete", "DELETE", "GET", "POST", "PUT"}
RequestBodies == {"none", "json"}

\* sort_items_by_date: items per list 0..MaxSortItems, calls per list
MaxSortItems == 3
MaxSorts == 2

\* request_looper: items per page 0..MaxPageItems, cursors handed out per call
MaxPageItems == 2
MaxCursors == 1
PageTotals == {1, 4}

\* values request_looper is called with: limit, and startDate / endDate as days
LooperLimits == {NONE, 0, 1, 3, 150}
LooperRanges ==
    { <<NoDate, NoDate>>, <<NoDate, Date(200)>>, <<Date(200), NoDate>>,
      <<Date(200), Date(200)>>, <<Date(150), Date(200)>>,
      <<Date(109), Date(200)>>, <<Date(100), Date(200)>>,
      <<Date(201), Date(200)>> }

\* thresholds setup() was called with before request_looper is
LooperLevels == {WARNING, ERROR}

\* statuses the server answers a request of request_looper with
LooperStatuses == {HTTP_OK, HTTP_NOT_FOUND, HTTP_UNAUTHORIZED, 400, 503}

\* statuses the server answers with; 400 stands for every unclassified status
Statuses == {HTTP_OK, HTTP_NOT_FOUND, HTTP_TOO_MANY_REQUESTS, HTTP_FORBIDDEN,
             HTTP_UNAUTHORIZED, 400} \cup ServerErrorStatuses

-----------------------------------------------------------------------------
(* Response bodies *)

\* A value request_wrapper can return: None (isNone) or a decoded 200 payload.
\* isEmpty: the payload is {}; hasItems / hasPage: the "items" and "page" keys
\* are present; tag identifies the response (stands for its other fields).
NoPayload == [isNone |-> TRUE, isEmpty |-> FALSE, tag |-> 0, hasItems |-> FALSE,
              items |-> <<>>, hasPage |-> FALSE, next |-> "", total |-> 0]

\* a single-object payload, an envelope, and the empty object
ObjectPayload(tag) == [NoPayload EXCEPT !.isNone = FALSE, !.tag = tag]
EnvelopePayload(tag, items, next, total) ==
    [NoPayload EXCEPT !.isNone = FALSE, !.tag = tag, !.hasItems = TRUE,
                      !.items = items, !.hasPage = TRUE, !.next = next,
                      !.total = total]
EmptyPayload == [NoPayload EXCEPT !.isNone = FALSE, !.isEmpty = TRUE]

\* An ISO timestamp string as items carry it under "date", "airedAt", ...:
\* the instant t it names and whether it is written with a trailing "Z".
Stamp(t, z) == [t |-> t, z |-> z]

\* An item of an envelope: id tells it from every other item, win is the
\* endDate of the window it was served for, date its timestamp (the server
\* dates its items by id, so pages hold equal and out-of-order dates).
Item(id, win) == [id |-> id, win |-> win, date |-> Stamp((2 * id) % 3, TRUE)]

DirectPayloads ==
    {ObjectPayload(1), EmptyPayload,
     EnvelopePayload(2, <<Item(1, NoDate)>>, "", 1)}

\* An error body.  errors: state of the "errors" array ("absent", "empty",
\* "nomsg": first element without message, "msg": first element with
\* message errmsg); topmsg: top-level "message" ("" = absent); text: the raw
\* body; json: whether the body decodes.
THROTTLE_TEXT == "You have reached the maximum request count"
ThrottleTexts == {THROTTLE_TEXT, "raw:" \o THROTTLE_TEXT}

BodyThrottle == [json |-> TRUE, errors |-> "msg", errmsg |-> THROTTLE_TEXT,
                 topmsg |-> "", text |-> "raw:" \o THROTTLE_TEXT]
BodyDenied == [json |-> TRUE, errors |-> "absent", errmsg |-> "",
               topmsg |-> "Access denied", text |-> "raw:Access denied"]
BodyPlain == [json |-> FALSE, errors |-> "absent", errmsg |-> "",
              topmsg |-> "", text |-> "Bad Gateway"]
ErrorBodies == {BodyThrottle, BodyDenied, BodyPlain}

\* `x or y` on strings: the first truthy operand
Or(x, y) == IF x # "" THEN x ELSE y

\* variant of ExtractMessage: an empty errors array is passed over
ExtractMessage_SkipsEmptyErrors(b) ==
    IF ~b.json THEN b.text
    ELSE Or(IF b.errors = "msg" THEN b.errmsg ELSE "", Or(b.topmsg, b.text))

\* lines 155-163: the message extracted from an error response
ExtractMessage(b) ==
    IF ~b.json THEN b.text                          \* ValueError
    ELSE IF b.errors = "empty" THEN b.text          \* IndexError
    ELSE Or(IF b.errors = "msg" THEN b.errmsg ELSE "", Or(b.topmsg, b.text))

\* "maximum request count" in message
HasRequestCountPattern(message) == message \in ThrottleTexts

-----------------------------------------------------------------------------
(* Dictionaries: a dict is a set of <<key, value>> pairs *)

DictSet(d, k, v) == {p \in d : p[1] # k} \cup {<<k, v>>}
DictHas(d, k) == \E p \in d : p[1] = k
DictGet(d, k) == (CHOOSE p \in d : p[1] = k)[2]

\* the endpoint path of the calls
ENDPOINT == "/api/v2/endpoint"

\* query parameters: the keys request_looper reads and rewrites; NONE = absent
NoParams == [limit |-> NONE, startDate |-> NoDate, endDate |-> NoDate]

-----------------------------------------------------------------------------
(* Initial state: the module has been loaded, setup() has not run *)

NoResult == [kind |-> "pending", why |-> "", status |-> 0, message |-> "",
             payload |-> NoPayload]
\* given: the max_retries / retry_delay arguments as the caller wrote them
\* (NONE = left to the default)
NoArgs == [endpoint |-> "", params |-> NoParams, body |-> "none",
           max_retries |-> 0, retry_delay |-> 0, method |-> "None",
           given |-> [max_retries |-> NONE, retry_delay |-> NONE],
           caller |-> "direct"]
NoResponse == [status |-> 0, message |-> "", payload |-> NoPayload]

InitConfig ==
    /\ HEADERS = [isNone |-> TRUE, dict |-> {}]
    /\ BASE_URL = "None"
    /\ MAX_RETRIES = LOAD_MAX_RETRIES
    /\ RETRY_DELAY = LOAD_RETRY_DELAY
    /\ EXCEPTION_LOG_LEVEL = ERROR

InitWrapper ==
    /\ w_pc = "idle"
    /\ w_args = NoArgs
    /\ w_attempt = 0
    /\ w_headers = {}
    /\ w_log_msg = ""
    /\ w_response = NoResponse
    /\ w_log = <<>>
    /\ w_result = NoResult

\* an argument or local that is a params dict or None
NoneParams == [isNone |-> TRUE, dict |-> NoParams]
SomeParams(d) == [isNone |-> FALSE, dict |-> d]

NoLocals == [params |-> NoParams, results |-> EmptyPayload, limit |-> NONE,
             start_date |-> NoDate, end_date |-> NoDate, period |-> 0,
             next_get |-> "", options |-> NoneParams, progress |-> 0]
NoLooperArgs == [params |-> NoneParams, passed |-> NoneParams, body |-> "none",
                 handle_period |-> TRUE]
NoLooperResult == [kind |-> "pending", exc |-> "", value |-> NoPayload]

InitLooper ==
    /\ l_pc = "idle"
    /\ l_in = NoLooperArgs
    /\ l = NoLocals
    /\ l_calls = <<>>
    /\ l_fetched = <<>>
    /\ l_result = NoLooperResult

\* no result is being sorted
InitSorter ==
    /\ s_input = NoPayload
    /\ s_result = NoPayload
    /\ s_runs = <<>>

\* no error body is being read
InitExtractor ==
    /\ m_body = BodyPlain
    /\ m_message = ""
    /\ m_done = FALSE

Init == InitConfig /\ InitWrapper /\ InitLooper /\ InitSorter /\ InitExtractor

-----------------------------------------------------------------------------
(* setup(): lines 40-82 *)

setup(app_id, api_key, base_url, max_retries, retry_delay, exception_log_level) ==
    /\ HEADERS' = [isNone |-> FALSE,
                   dict |-> DictSet(DictSet({}, "x-app-id", app_id),
                                    "x-api-key", api_key)]
    /\ BASE_URL' = base_url
    /\ MAX_RETRIES' = max_retries
    /\ RETRY_DELAY' = retry_delay
    /\ EXCEPTION_LOG_LEVEL' = exception_log_level

\* The program is single-threaded: setup() runs between calls.
Setup ==
    /\ w_pc = "idle" /\ l_pc = "idle"
    /\ \E a \in AppIds, k \in ApiKeys, u \in BaseUrls,
          n \in 0..MaxSetupRetries, d \in SetupDelays, lv \in SetupLevels :
            setup(a, k, u, n, d, lv)
    /\ UNCHANGED <<wvars, lvars, svars, mvars>>

-----------------------------------------------------------------------------
(* request_wrapper(): lines 85-220 *)

\* str.lower() on the method names the model passes
Lower(m) ==
    CASE m = "DELETE" -> "delete"
      [] m = "GET" -> "get"
      [] m = "POST" -> "post"
      [] m = "PUT" -> "put"
      [] OTHER -> m

Truthy(body) == body # "none"

\* variant of MethodName: an unsupported method falls back on the default
MethodName_Fallback(method, body) ==
    IF Lower(method) = "delete" THEN "DELETE"
    ELSE IF Truthy(body) THEN "POST" ELSE "GET"

\* lines 118-125: the HTTP method of one attempt; "ValueError" when the code
\* raises ValueError("Unsupported HTTP method")
MethodName(method, body) ==
    IF method = "None" THEN (IF Truthy(body) THEN "POST" ELSE "GET")
    ELSE IF Lower(method) = "delete" THEN "DELETE"
    ELSE "ValueError"

\* lines 151, 166, 174-179, 186-192, 205: the branch taken for a response
Classify(status, message) ==
    IF status = HTTP_OK THEN "ok"
    ELSE IF status = HTTP_NOT_FOUND THEN "not_found"
    ELSE IF status \in ServerErrorStatuses THEN "server_error"
    ELSE IF status \in AuthStatuses THEN
        IF status = 429 /\ HasRequestCountPattern(message) THEN "throttle"
        ELSE "auth"
    ELSE "unknown"

\* lines 169, 200, 207, 217: `if logging.X >= EXCEPTION_LOG_LEVEL`
Raises(severity) == severity >= EXCEPTION_LOG_LEVEL

\* variant of CallHeaders: a call with a body sends only the Content-Type
CallHeaders_OnlyContentType(body) ==
    IF Truthy(body) THEN DictSet({}, "Content-Type", "application/json")
    ELSE HEADERS.dict

\* lines 108-113: the headers of the call
CallHeaders(body) ==
    IF Truthy(body) THEN DictSet(HEADERS.dict, "Content-Type", "application/json")
    ELSE HEADERS.dict

\* lines 139-145: one HTTP request as it goes on the wire, with the branch the
\* code took on its outcome
RequestEvent(branch) ==
    [ev |-> "request",
     method |-> MethodName(w_args.method, w_args.body),
     url |-> BASE_URL \o w_args.endpoint,
     params |-> w_args.params,
     headers |-> w_headers,
     data |-> Truthy(w_args.body),
     branch |-> branch,
     secs |-> 0]

\* time.sleep(secs)
SleepEvent(secs) ==
    [ev |-> "sleep", method |-> "", url |-> "", params |-> NoParams,
     headers |-> {}, data |-> FALSE, branch |-> "", secs |-> secs]

\* variant of Exhausted: the failure is raised whatever the threshold
Exhausted_Ungated ==
    [NoResult EXCEPT !.kind = "RuntimeError", !.why = "exhausted",
                     !.message = "Unhandled error or maximum retries exceeded."]

\* lines 215-220: after the for loop
Exhausted ==
    IF Raises(ERROR)
    THEN [NoResult EXCEPT !.kind = "RuntimeError", !.why = "exhausted",
                          !.message = "Unhandled error or maximum retries exceeded."]
    ELSE [NoResult EXCEPT !.kind = "None", !.why = "exhausted"]

\* the call ends with result r after adding `events` to the trace
Finish(r, events, log_msg, response) ==
    /\ w_pc' = "done"
    /\ w_result' = r
    /\ w_log' = w_log \o events
    /\ w_log_msg' = log_msg
    /\ w_response' = response
    /\ UNCHANGED <<w_args, w_attempt, w_headers>>

\* variant of NextAttempt: the loop bound is off by one
NextAttempt_OneMore(events, response) ==
    IF w_attempt + 1 <= w_args.max_retries
    THEN /\ w_attempt' = w_attempt + 1
         /\ w_log' = w_log \o events
         /\ w_response' = response
         /\ UNCHANGED <<w_pc, w_args, w_headers, w_log_msg, w_result>>
    ELSE Finish(Exhausted, events, w_log_msg, response)

\* line 115: the attempt ends without return or raise; the for loop takes the
\* next value of range(max_retries) or falls through to line 215
NextAttempt(events, response) ==
    IF w_attempt + 1 < w_args.max_retries
    THEN /\ w_attempt' = w_attempt + 1
         /\ w_log' = w_log \o events
         /\ w_response' = response
         /\ UNCHANGED <<w_pc, w_args, w_headers, w_log_msg, w_result>>
    ELSE Finish(Exhausted, events, w_log_msg, response)

\* lines 85-93: the value of a parameter: the argument, or the default
Param(given, default) == IF given = NONE THEN default ELSE given

\* lines 106-115: entry of request_wrapper up to the first attempt
Enter(endpoint, params, body, max_retries, retry_delay, method, caller) ==
    LET args == [endpoint |-> endpoint,
                 \* line 110: params = params or {}
                 params |-> IF params.isNone THEN NoParams ELSE params.dict,
                 body |-> body,
                 max_retries |-> Param(max_retries, LOAD_MAX_RETRIES),
                 retry_delay |-> Param(retry_delay, LOAD_RETRY_DELAY),
                 method |-> method,
                 given |-> [max_retries |-> max_retries,
                            retry_delay |-> retry_delay],
                 caller |-> caller]
    IN  /\ w_args' = args
        /\ w_attempt' = 0
        /\ w_log' = <<>>
        /\ w_log_msg' = ""
        /\ w_response' = NoResponse
        /\ IF HEADERS.isNone
           THEN \* HEADERS.copy() on None
                /\ w_pc' = "done"
                /\ w_headers' = {}
                /\ w_result' = [NoResult EXCEPT !.kind = "AttributeError",
                                                !.why = "headers"]
           ELSE /\ w_headers' = CallHeaders(body)
                /\ IF args.max_retries > 0
                   THEN w_pc' = "attempt" /\ w_result' = NoResult
                   ELSE w_pc' = "done" /\ w_result' = Exhausted

\* variant of CallWrapper: headers is HEADERS itself, not a copy of it
CallWrapper_SharesHeaders ==
    /\ w_pc = "idle" /\ l_pc = "idle"
    /\ \E method \in Methods, body \in RequestBodies,
          n \in {NONE} \cup 0..MaxCallRetries, d \in CallDelays :
            /\ Enter(ENDPOINT, NoneParams, body, n, d, method, "direct")
            /\ HEADERS' = IF HEADERS.isNone THEN HEADERS
                          ELSE [HEADERS EXCEPT !.dict = CallHeaders(body)]
    /\ UNCHANGED <<BASE_URL, MAX_RETRIES, RETRY_DELAY, EXCEPTION_LOG_LEVEL,
                   lvars, svars, mvars>>

\* a direct call of request_wrapper by an endpoint function or the user
CallWrapper ==
    /\ w_pc = "idle" /\ l_pc = "idle"
    /\ \E method \in Methods, body \in RequestBodies,
          n \in {NONE} \cup 0..MaxCallRetries, d \in CallDelays :
            Enter(ENDPOINT, NoneParams, body, n, d, method, "direct")
    /\ UNCHANGED <<cvars, lvars, svars, mvars>>

\* lines 118-125: the method is not supported: ValueError leaves the loop
\* (it is no requests.RequestException)
AttemptBadMethod ==
    /\ w_pc = "attempt"
    /\ MethodName(w_args.method, w_args.body) = "ValueError"
    /\ Finish([NoResult EXCEPT !.kind = "ValueError", !.why = "method",
                               !.message = "Unsupported HTTP method"],
              <<>>, w_log_msg, w_response)
    /\ UNCHANGED <<cvars, lvars, svars, mvars>>

\* variant of OnTransportError: the final attempt is not recognised
OnTransportError_NeverFinal(req) == NextAttempt(req, w_response)

\* variant of OnTransportError: the next attempt waits the retry delay
OnTransportError_Backoff(req) ==
    IF w_attempt = w_args.max_retries - 1
    THEN Finish([NoResult EXCEPT !.kind = "RuntimeError", !.why = "transport",
                                 !.message = "Maximum retry attempts reached."],
                req, w_log_msg, w_response)
    ELSE NextAttempt(req \o <<SleepEvent(w_args.retry_delay)>>, w_response)

\* lines 210-213: the request raised requests.RequestException; `response`
\* keeps the value of the attempt before
OnTransportError(req) ==
    IF w_attempt = w_args.max_retries - 1
    THEN Finish([NoResult EXCEPT !.kind = "RuntimeError", !.why = "transport",
                                 !.message = "Maximum retry attempts reached."],
                req, w_log_msg, w_response)
    ELSE NextAttempt(req, w_response)

AttemptTransport ==
    /\ w_pc = "attempt"
    /\ MethodName(w_args.method, w_args.body) # "ValueError"
    /\ OnTransportError(<<RequestEvent("transport")>>)
    /\ UNCHANGED <<cvars, lvars, svars, mvars>>

\* a RuntimeError raised for, and a None returned on, a response
Failed(why, status, message) ==
    [NoResult EXCEPT !.kind = "RuntimeError", !.why = why, !.status = status,
                     !.message = message]
Absent(why, status) ==
    [NoResult EXCEPT !.kind = "None", !.why = why, !.status = status]

\* variant of OnOk: the success is not returned, the loop goes on
OnOk_Retried(req, resp) == NextAttempt(req, resp)

\* lines 151-152: return response.json()
OnOk(req, resp) ==
    Finish([NoResult EXCEPT !.kind = "payload", !.status = resp.status,
                            !.payload = resp.payload], req, w_log_msg, resp)

\* variant of OnNotFound: gated like an error instead of like a warning
OnNotFound_AsError(req, resp, message) ==
    Finish(IF Raises(ERROR) THEN Failed("404", resp.status, message)
           ELSE Absent("404", resp.status),
           req, "404 Not Found", resp)

\* variant of OnNotFound: the decoded error body is returned as the result
OnNotFound_ReturnsBody(req, resp, message) ==
    Finish([NoResult EXCEPT !.kind = "payload", !.status = resp.status,
                            !.payload = ObjectPayload(0)],
           req, "404 Not Found", resp)

\* lines 166-171
OnNotFound(req, resp, message) ==
    Finish(IF Raises(WARNING) THEN Failed("404", resp.status, message)
           ELSE Absent("404", resp.status),
           req, "404 Not Found", resp)

\* lines 174-183
OnServerError(req, resp) ==
    NextAttempt(req \o <<SleepEvent(w_args.retry_delay)>>, resp)

\* variant of OnThrottle: the throttle is handled like a server error
OnThrottle_AsServerError(req, resp) ==
    NextAttempt(req \o <<SleepEvent(w_args.retry_delay)>>, resp)

\* variant of OnThrottle: the cooldown does not use up an attempt
OnThrottle_FreeRetry(req, resp) ==
    /\ w_log' = w_log \o req \o <<SleepEvent(THROTTLE_SLEEP)>>
    /\ w_response' = resp
    /\ UNCHANGED <<w_pc, w_args, w_attempt, w_headers, w_log_msg, w_result>>

\* lines 192-196
OnThrottle(req, resp) ==
    NextAttempt(req \o <<SleepEvent(THROTTLE_SLEEP)>>, resp)

\* lines 197-202
OnAuthError(req, resp, message) ==
    Finish(IF Raises(ERROR) THEN Failed("auth", resp.status, message)
           ELSE Absent("auth", resp.status),
           req, "Error", resp)

\* lines 204-208: line 206 reads log_msg, which is bound only on the paths
\* of lines 167 and 198, and those leave the function
OnUnknown(req, resp, message) ==
    IF w_log_msg = ""
    THEN Finish([NoResult EXCEPT !.kind = "UnboundLocalError",
                                 !.why = "log_msg"], req, w_log_msg, resp)
    ELSE IF Raises(ERROR)
    THEN Finish(Failed("http", resp.status, message), req, w_log_msg, resp)
    ELSE NextAttempt(req, resp)

\* lines 139-208: the request is answered with `status`; body is the error
\* body of a non-200 response and payload the decoded JSON of a 200 response
HandleResponse(status, body, payload) ==
    LET message == ExtractMessage(body)
        branch == Classify(status, message)
        req == <<RequestEvent(branch)>>
        resp == [status |-> status, payload |-> payload,
                 message |-> IF status = HTTP_OK THEN "" ELSE message]
    IN  CASE branch = "ok" -> OnOk(req, resp)
          [] branch = "not_found" -> OnNotFound(req, resp, message)
          [] branch = "server_error" -> OnServerError(req, resp)
          [] branch = "throttle" -> OnThrottle(req, resp)
          [] branch = "auth" -> OnAuthError(req, resp, message)
          [] OTHER -> OnUnknown(req, resp, message)

\* bodies an error response may carry: the message of a 5xx response is only
\* logged, so one body stands for all of them
ServerBodies(status) ==
    IF status \in ServerErrorStatuses \/ w_args.caller = "looper"
    THEN {BodyPlain} ELSE ErrorBodies

\* all items of a sequence of responses, in order
RECURSIVE ItemsOf(_)
ItemsOf(responses) ==
    IF responses = <<>> THEN <<>>
    ELSE ItemsOf(SubSeq(responses, 1, Len(responses) - 1))
         \o responses[Len(responses)].items

\* cursors the server has handed to the looper call so far
CursorsIssued == Cardinality({i \in DOMAIN l_fetched : l_fetched[i].next # ""})

\* The 200 payloads the server may answer a request of request_looper with:
\* the empty object, an envelope of n new items (numbered in the order served
\* and marked with the end date of the window they were asked for) with
\* page.total and, while the chain may go on, page.next, or, when the request
\* is not for a cursor, a single object.
LooperPayloads ==
    LET tag == Len(l_fetched) + 1
        served == Len(ItemsOf(l_fetched))
        page(n) == [k \in 1..n |-> Item(served + k, l.params.endDate)]
        nexts == {""} \cup (IF CursorsIssued < MaxCursors
                            THEN {"/cursor/" \o ToString(CursorsIssued + 1)}
                            ELSE {})
    IN  {EmptyPayload}
        \cup (IF w_args.endpoint = ENDPOINT THEN {ObjectPayload(tag)} ELSE {})
        \cup {EnvelopePayload(tag, page(n), nx, t) :
                 n \in 0..MaxPageItems, nx \in nexts, t \in PageTotals}

\* payloads a 200 response may carry
ServerPayloads ==
    IF w_args.caller = "looper" THEN LooperPayloads ELSE DirectPayloads

\* statuses the server answers a request with; within a call of
\* request_looper only the first request meets server errors
ServerStatuses ==
    IF w_args.caller # "looper" THEN Statuses
    ELSE IF l_fetched = <<>> THEN LooperStatuses
    ELSE LooperStatuses \ ServerErrorStatuses

AttemptResponse ==
    /\ w_pc = "attempt"
    /\ MethodName(w_args.method, w_args.body) # "ValueError"
    /\ \E status \in ServerStatuses :
         IF status = HTTP_OK
         THEN \E payload \in ServerPayloads :
                HandleResponse(status, BodyPlain, payload)
         ELSE \E body \in ServerBodies(status) :
                HandleResponse(status, body, NoPayload)
    /\ UNCHANGED <<cvars, lvars, svars, mvars>>

\* the call has returned or raised: its frame is discarded and control is
\* back at the caller
Return ==
    /\ w_pc = "done"
    /\ w_args.caller = "direct"
    /\ w_pc' = "idle"
    /\ w_args' = NoArgs
    /\ w_attempt' = 0
    /\ w_headers' = {}
    /\ w_log_msg' = ""
    /\ w_response' = NoResponse
    /\ w_log' = <<>>
    /\ w_result' = NoResult
    /\ UNCHANGED <<cvars, lvars, svars, mvars>>


-----------------------------------------------------------------------------
(* request_looper(): lines 223-330 *)

\* line 265 and the literals of lines 272 and 284
PERIOD == 90
PAGE_LIMIT == 100
WINDOW_DAYS == 90

Min(a, b) == IF a <= b THEN a ELSE b
Max(a, b) == IF a >= b THEN a ELSE b

\* lines 242-250: strptime reads padded and unpadded dates alike, strftime
\* writes padded ones
str_to_date(date_str) == date_str.day
str_date_add(date_str, amount) == Date(str_to_date(date_str) + amount)
date_difference(start_date, end_date) ==
    str_to_date(end_date) - str_to_date(start_date)

\* lines 252-253
is_empty(obj) == obj.isNone \/ obj.isEmpty

\* variant of LimitSet: a limit of 0 counts as a limit
LimitSet_ZeroCounts(limit) == limit # NONE

\* `if limit`
LimitSet(limit) == limit # NONE /\ limit # 0

\* what the looper does next: call request_wrapper again, return, or raise
Ctl(ctl, loc) == [ctl |-> ctl, loc |-> loc]

\* variant of Locals: the limit goes on the wire as the caller gave it
Locals_Unclamped(params, handle_period) ==
    LET p0 == IF params.isNone THEN NoParams ELSE params.dict
        limit == p0.limit
        p1 == p0
        end_date == p1.endDate
        start_date == IF handle_period /\ ~end_date.isNone /\ p1.startDate.isNone
                      THEN str_date_add(end_date, -PERIOD)
                      ELSE p1.startDate
    IN  [NoLocals EXCEPT !.params = p1, !.limit = limit, !.period = PERIOD,
                         !.start_date = start_date, !.end_date = end_date]

\* lines 262-278: the locals before the outer loop
Locals(params, handle_period) ==
    LET p0 == IF params.isNone THEN NoParams ELSE params.dict
        limit == p0.limit
        p1 == IF LimitSet(limit)
              THEN [p0 EXCEPT !.limit = Min(limit, PAGE_LIMIT)] ELSE p0
        end_date == p1.endDate
        start_date == IF handle_period /\ ~end_date.isNone /\ p1.startDate.isNone
                      THEN str_date_add(end_date, -PERIOD)
                      ELSE p1.startDate
    IN  [NoLocals EXCEPT !.params = p1, !.limit = limit, !.period = PERIOD,
                         !.start_date = start_date, !.end_date = end_date]

\* variant of Window: the period is not capped
Window_Unclamped(loc, handle_period) ==
    LET dated == handle_period /\ ~loc.end_date.isNone
        period == IF dated
                  THEN date_difference(loc.start_date, loc.end_date)
                  ELSE loc.period
        startDate == str_date_add(loc.end_date, -period)
        params == IF dated
                  THEN [loc.params EXCEPT !.endDate = loc.end_date,
                                          !.startDate = startDate]
                  ELSE loc.params
        end_date == IF dated THEN str_date_add(startDate, -1) ELSE loc.end_date
    IN  [loc EXCEPT !.params = params, !.period = period, !.end_date = end_date,
                    !.next_get = ENDPOINT, !.options = SomeParams(params),
                    !.progress = 0]

\* variant of Window: the end date is not moved before the window
Window_SameEnd(loc, handle_period) ==
    LET dated == handle_period /\ ~loc.end_date.isNone
        period == IF dated
                  THEN Min(date_difference(loc.start_date, loc.end_date),
                           WINDOW_DAYS)
                  ELSE loc.period
        startDate == str_date_add(loc.end_date, -period)
        params == IF dated
                  THEN [loc.params EXCEPT !.endDate = loc.end_date,
                                          !.startDate = startDate]
                  ELSE loc.params
    IN  [loc EXCEPT !.params = params, !.period = period,
                    !.next_get = ENDPOINT, !.options = SomeParams(params),
                    !.progress = 0]

\* lines 281-290: the head of one pass of the outer loop
Window(loc, handle_period) ==
    LET dated == handle_period /\ ~loc.end_date.isNone
        period == IF dated
                  THEN Min(date_difference(loc.start_date, loc.end_date),
                           WINDOW_DAYS)
                  ELSE loc.period
        startDate == str_date_add(loc.end_date, -period)
        params == IF dated
                  THEN [loc.params EXCEPT !.endDate = loc.end_date,
                                          !.startDate = startDate]
                  ELSE loc.params
        end_date == IF dated THEN str_date_add(startDate, -1) ELSE loc.end_date
    IN  [loc EXCEPT !.params = params, !.period = period, !.end_date = end_date,
                    !.next_get = ENDPOINT, !.options = SomeParams(params),
                    !.progress = 0]

\* variant of AfterPages: equal start and end dates do not end the loop
AfterPages_NoEqualExit(loc, handle_period) ==
    IF ~handle_period \/ (LimitSet(loc.limit) /\ loc.progress >= loc.limit)
    THEN Ctl("return", loc)
    ELSE IF loc.start_date.isNone \/ loc.end_date.isNone
    THEN Ctl("TypeError", loc)
    ELSE IF date_difference(loc.start_date, loc.end_date) < 0
    THEN Ctl("return", loc)
    ELSE IF loc.period > 0 THEN Ctl("call", Window(loc, handle_period))
    ELSE Ctl("return", loc)

\* variant of AfterPages: a start date after the end date does not end the loop
AfterPages_NoExhaustedExit(loc, handle_period) ==
    IF ~handle_period \/ (LimitSet(loc.limit) /\ loc.progress >= loc.limit)
    THEN Ctl("return", loc)
    ELSE IF loc.start_date = loc.end_date THEN Ctl("return", loc)
    ELSE IF loc.start_date.isNone \/ loc.end_date.isNone
    THEN Ctl("TypeError", loc)
    ELSE IF loc.period > 0 THEN Ctl("call", Window(loc, handle_period))
    ELSE Ctl("return", loc)

\* lines 322-325 and 280: after the pagination loop
AfterPages(loc, handle_period) ==
    IF ~handle_period \/ (LimitSet(loc.limit) /\ loc.progress >= loc.limit)
    THEN Ctl("return", loc)
    ELSE IF loc.start_date = loc.end_date THEN Ctl("return", loc)
    ELSE IF loc.start_date.isNone \/ loc.end_date.isNone
    THEN Ctl("TypeError", loc)              \* strptime(None, "%Y-%m-%d")
    ELSE IF date_difference(loc.start_date, loc.end_date) < 0
    THEN Ctl("return", loc)
    ELSE IF loc.period > 0 THEN Ctl("call", Window(loc, handle_period))
    ELSE Ctl("return", loc)

\* variant of Merge: the new items are put in front
Merge_Reversed(results, response) ==
    IF results.isEmpty THEN response
    ELSE IF results.hasItems /\ response.hasItems
    THEN [response EXCEPT !.items = response.items \o results.items]
    ELSE results

\* variant of Merge: the accumulator keeps its own fields and takes the items
Merge_KeepsFirst(results, response) ==
    IF results.isEmpty THEN response
    ELSE IF results.hasItems /\ response.hasItems
    THEN [results EXCEPT !.items = results.items \o response.items]
    ELSE results

\* lines 299-304: the response is merged into results
Merge(results, response) ==
    IF results.isEmpty THEN response
    ELSE IF results.hasItems /\ response.hasItems
    THEN [response EXCEPT !.items = results.items \o response.items]
    ELSE results

\* variant of OnResponse: the cursor is followed whatever the limit
OnResponse_FollowsCursor(loc, response, handle_period) ==
    IF is_empty(response) THEN AfterPages(loc, handle_period)
    ELSE
      LET merged == Merge(loc.results, response)
          next_get == IF merged.hasPage THEN merged.next ELSE ""
          progress == Len(merged.items)
          results == IF merged.hasPage
                     THEN [merged EXCEPT !.total = Max(merged.total, progress)]
                     ELSE merged
          loc2 == [loc EXCEPT !.results = results, !.next_get = next_get,
                              !.options = NoneParams, !.progress = progress]
      IN  IF next_get # "" THEN Ctl("call", loc2)
          ELSE AfterPages(loc2, handle_period)

\* variant of OnResponse: an empty response ends the whole call
OnResponse_EmptyEndsCall(loc, response, handle_period) ==
    IF is_empty(response) THEN Ctl("return", loc)
    ELSE
      LET merged == Merge(loc.results, response)
          next_get == IF merged.hasPage THEN merged.next ELSE ""
          progress == Len(merged.items)
          results == IF merged.hasPage
                     THEN [merged EXCEPT !.total = Max(merged.total, progress)]
                     ELSE merged
          loc2 == [loc EXCEPT !.results = results, !.next_get = next_get,
                              !.options = NoneParams, !.progress = progress]
      IN  IF LimitSet(loc.limit) /\ progress >= loc.limit
          THEN AfterPages(loc2, handle_period)
          ELSE IF next_get # "" THEN Ctl("call", loc2)
          ELSE AfterPages(loc2, handle_period)

\* variant of OnResponse: the parameters are sent again with the cursor
OnResponse_ResendsParams(loc, response, handle_period) ==
    IF is_empty(response) THEN AfterPages(loc, handle_period)
    ELSE
      LET merged == Merge(loc.results, response)
          next_get == IF merged.hasPage THEN merged.next ELSE ""
          progress == Len(merged.items)
          results == IF merged.hasPage
                     THEN [merged EXCEPT !.total = Max(merged.total, progress)]
                     ELSE merged
          loc2 == [loc EXCEPT !.results = results, !.next_get = next_get,
                              !.progress = progress]
      IN  IF LimitSet(loc.limit) /\ progress >= loc.limit
          THEN AfterPages(loc2, handle_period)
          ELSE IF next_get # "" THEN Ctl("call", loc2)
          ELSE AfterPages(loc2, handle_period)

\* variant of OnResponse: page.total is left as the server sent it
OnResponse_TotalAsSent(loc, response, handle_period) ==
    IF is_empty(response) THEN AfterPages(loc, handle_period)
    ELSE
      LET merged == Merge(loc.results, response)
          next_get == IF merged.hasPage THEN merged.next ELSE ""
          progress == Len(merged.items)
          loc2 == [loc EXCEPT !.results = merged, !.next_get = next_get,
                              !.options = NoneParams, !.progress = progress]
      IN  IF LimitSet(loc.limit) /\ progress >= loc.limit
          THEN AfterPages(loc2, handle_period)
          ELSE IF next_get # "" THEN Ctl("call", loc2)
          ELSE AfterPages(loc2, handle_period)

\* lines 296-320: one response of the pagination loop
OnResponse(loc, response, handle_period) ==
    IF is_empty(response) THEN AfterPages(loc, handle_period)
    ELSE
      LET merged == Merge(loc.results, response)
          next_get == IF merged.hasPage THEN merged.next ELSE ""
          progress == Len(merged.items)
          results == IF merged.hasPage
                     THEN [merged EXCEPT !.total = Max(merged.total, progress)]
                     ELSE merged
          loc2 == [loc EXCEPT !.results = results, !.next_get = next_get,
                              !.options = NoneParams, !.progress = progress]
      IN  IF LimitSet(loc.limit) /\ progress >= loc.limit
          THEN AfterPages(loc2, handle_period)
          ELSE IF next_get # "" THEN Ctl("call", loc2)
          ELSE AfterPages(loc2, handle_period)

\* variant of Returned: the list is not cut to the limit
Returned_Untruncated(loc) == loc.results

\* lines 327-330: the value returned
Returned(loc) ==
    IF loc.results.items # <<>> /\ LimitSet(loc.limit)
    THEN [loc.results EXCEPT
            !.items = SubSeq(loc.results.items, 1,
                             Min(loc.limit, Len(loc.results.items)))]
    ELSE loc.results

\* the frame of request_wrapper is gone
NoWrapper ==
    /\ w_pc' = "idle"
    /\ w_args' = NoArgs
    /\ w_attempt' = 0
    /\ w_headers' = {}
    /\ w_log_msg' = ""
    /\ w_response' = NoResponse
    /\ w_log' = <<>>
    /\ w_result' = NoResult

\* line 294: response = request_wrapper(next_get, options, body=body)
LooperRequest(loc, body) ==
    /\ Enter(loc.next_get, loc.options, body, NONE, NONE, "None", "looper")
    /\ l' = loc
    /\ l_pc' = "wait"
    /\ l_calls' = Append(l_calls, [endpoint |-> loc.next_get,
                                   options |-> loc.options, body |-> body])
    /\ l_result' = NoLooperResult

\* request_looper ends: it returns value or lets exception exc through
LooperEnd(loc, kind, exc, value) ==
    /\ NoWrapper
    /\ l' = loc
    /\ l_pc' = "done"
    /\ l_result' = [kind |-> kind, exc |-> exc, value |-> value]
    /\ UNCHANGED l_calls

\* variant of CallerMapping: the function works on the caller's own mapping
CallerMapping_Aliased(mapping, loc) ==
    IF mapping.isNone THEN mapping ELSE SomeParams(loc.params)

\* line 262: params = params.copy() if params else {}.  The mapping of the
\* caller after the function has written to its local `params`, whose value
\* is loc.params: the local is a copy, so the caller's mapping is as it was
CallerMapping(mapping, loc) == mapping

\* lines 262-294: a call of request_looper, up to its first request
LooperCall ==
    /\ w_pc = "idle" /\ l_pc = "idle"
    /\ \E limit \in LooperLimits, range \in LooperRanges,
          body \in RequestBodies, handle_period \in BOOLEAN :
         LET params == [limit |-> limit, startDate |-> range[1],
                        endDate |-> range[2]]
             loc == Window(Locals(SomeParams(params), handle_period),
                           handle_period)
         IN  /\ l_in' = [params |-> CallerMapping(SomeParams(params), loc),
                         passed |-> SomeParams(params), body |-> body,
                         handle_period |-> handle_period]
             /\ LooperRequest(loc, body)
    /\ l_fetched' = <<>>
    /\ UNCHANGED <<cvars, svars, mvars>>

\* variant of LooperResume: a failure of request_wrapper ends the call with
\* what has been merged so far
LooperResume_ReturnsPartial ==
    /\ l_pc = "wait" /\ w_pc = "done"
    /\ IF w_result.kind \notin {"payload", "None"}
       THEN /\ LooperEnd(l, "return", "", Returned(l))
            /\ UNCHANGED l_fetched
       ELSE LET response == w_result.payload
                step == OnResponse(l, response, l_in.handle_period)
            IN  /\ l_fetched' = Append(l_fetched, response)
                /\ CASE step.ctl = "call" -> LooperRequest(step.loc, l_in.body)
                     [] step.ctl = "return" ->
                          LooperEnd(step.loc, "return", "", Returned(step.loc))
                     [] OTHER ->
                          LooperEnd(step.loc, "raise", step.ctl, NoPayload)
    /\ UNCHANGED <<cvars, l_in, svars, mvars>>

\* lines 294-330: request_wrapper has returned or raised; the looper goes on
\* to its next request or to its end
LooperResume ==
    /\ l_pc = "wait" /\ w_pc = "done"
    /\ IF w_result.kind \notin {"payload", "None"}
       THEN /\ LooperEnd(l, "raise", w_result.kind, NoPayload)
            /\ UNCHANGED l_fetched
       ELSE LET response == w_result.payload
                step == OnResponse(l, response, l_in.handle_period)
            IN  /\ l_fetched' = Append(l_fetched, response)
                /\ CASE step.ctl = "call" -> LooperRequest(step.loc, l_in.body)
                     [] step.ctl = "return" ->
                          LooperEnd(step.loc, "return", "", Returned(step.loc))
                     [] OTHER ->
                          LooperEnd(step.loc, "raise", step.ctl, NoPayload)
    /\ l_in' = [l_in EXCEPT !.params = CallerMapping(@, l')]
    /\ UNCHANGED <<cvars, svars, mvars>>

\* the caller has the result; the frame of request_looper is gone
LooperReturn ==
    /\ l_pc = "done"
    /\ l_pc' = "idle"
    /\ l_in' = NoLooperArgs
    /\ l' = NoLocals
    /\ l_calls' = <<>>
    /\ l_fetched' = <<>>
    /\ l_result' = NoLooperResult
    /\ UNCHANGED <<cvars, wvars, svars, mvars>>

-----------------------------------------------------------------------------
(* sort_items_by_date(): lines 333-341, and the endpoint functions *)

\* x[key].replace("Z", "") and datetime.fromisoformat: the text without its
\* "Z", and the instant the text names
replace_Z(stamp) == [stamp EXCEPT !.z = FALSE]
fromisoformat(stamp) == stamp.t
SortKey(x) == fromisoformat(replace_Z(x.date))

\* variant of Before: the direction asked for is ignored
Before_Ascending(x, y, reverse) == SortKey(x) < SortKey(y)

\* variant of Before: items of equal date count as out of order
Before_OrEqual(x, y, reverse) ==
    IF reverse THEN SortKey(x) >= SortKey(y) ELSE SortKey(x) <= SortKey(y)

\* x goes before y in the order asked for
Before(x, y, reverse) ==
    IF reverse THEN SortKey(x) > SortKey(y) ELSE SortKey(x) < SortKey(y)

\* sorted(items, key=..., reverse=reverse): stable in both directions, items
\* with equal keys keep the order they came in
RECURSIVE sorted(_, _)
sorted(items, reverse) ==
    IF items = <<>> THEN <<>>
    ELSE LET n == Len(items)
             x == items[n]
             head == sorted(SubSeq(items, 1, n - 1), reverse)
             pos == Cardinality({i \in DOMAIN head : ~Before(x, head[i], reverse)})
         IN  SubSeq(head, 1, pos) \o <<x>> \o SubSeq(head, pos + 1, Len(head))

\* what a function gives its caller: a value or an exception
Gives(value) == [kind |-> "return", exc |-> "", value |-> value]
Throws(exc) == [kind |-> "raise", exc |-> exc, value |-> NoPayload]

\* variant of sort_items_by_date: a new result holding only the sorted items
sort_items_by_date_ItemsOnly(result, reverse) ==
    IF ~result.hasItems THEN Throws("KeyError")
    ELSE Gives(EnvelopePayload(0, sorted(result.items, reverse), "", 0))

\* lines 333-341: result["items"] of a result without that key is a KeyError;
\* the items hold under date the timestamp of the key the caller sorts by
sort_items_by_date(result, reverse) ==
    IF ~result.hasItems THEN Throws("KeyError")
    ELSE Gives([result EXCEPT !.items = sorted(result.items, reverse)])

\* the timestamps the items of a list to sort may carry: equal instants, and
\* one instant written with and without "Z"
SortStamps == {Stamp(0, TRUE), Stamp(1, TRUE), Stamp(1, FALSE), Stamp(2, TRUE)}

\* the results sort_items_by_date is called on: envelopes of up to
\* MaxSortItems items in any order of dates, and a result without items
SortInputs ==
    {ObjectPayload(1)}
    \cup UNION {
           {EnvelopePayload(2, [k \in 1..n |-> [Item(k, NoDate) EXCEPT !.date = f[k]]],
                            "", n) : f \in [1..n -> SortStamps]}
           : n \in 0..MaxSortItems}

\* result = sort_items_by_date(result, reverse): result["items"] is replaced
\* by the sorted list, or the call raises and result is as it was
SortCall ==
    /\ ~s_input.isNone
    /\ Len(s_runs) < MaxSorts
    /\ \E reverse \in BOOLEAN :
         LET out == sort_items_by_date(s_result, reverse)
         IN  /\ s_result' = IF out.kind = "return" THEN out.value ELSE s_result
             /\ s_runs' = Append(s_runs, [reverse |-> reverse, out |-> out])
    /\ UNCHANGED <<cvars, wvars, lvars, s_input, mvars>>

\* radio.py lines 17-18 (Radio.get_radios and the functions like it):
\* result = request_looper(endpoint, params)
\* return result if result is not None else {}
get_radios ==
    IF l_result.kind # "return" THEN l_result
    ELSE IF l_result.value.isNone THEN Gives(EmptyPayload)
    ELSE Gives(l_result.value)

\* song.py lines 162-163 (Song.get_audience and the functions like it):
\* result = request_looper(endpoint, params)
\* return {} if result is None else sort_items_by_date(result, True)
get_audience ==
    IF l_result.kind # "return" THEN l_result
    ELSE IF l_result.value.isNone THEN Gives(EmptyPayload)
    ELSE sort_items_by_date(l_result.value, TRUE)

-----------------------------------------------------------------------------
(* Reading the trace of a call *)

Configured == ~HEADERS.isNone
Running == w_pc \in {"attempt", "done"}
ReqIdx == {i \in DOMAIN w_log : w_log[i].ev = "request"}
NumRequests == Cardinality(ReqIdx)
NumSleeps == Cardinality(DOMAIN w_log \ ReqIdx)
LastReq == w_log[CHOOSE i \in ReqIdx : \A j \in ReqIdx : j <= i]
\* the response in w_response is the answer to the last request of the trace
ResponseIsLast == ReqIdx # {} /\ LastReq.branch # "transport"
\* the call ended on the request at place i of the trace
EndsCall(i) == i = Len(w_log) /\ w_pc = "done"
\* every attempt of the finished call issued a request that took branch b
EveryAttempt(b) ==
    /\ w_pc = "done"
    /\ Configured
    /\ w_result.why # "method"
    /\ \A i \in ReqIdx : w_log[i].branch = b

-----------------------------------------------------------------------------
(* The executor alone: setup() and direct calls of request_wrapper *)

Next ==
    \/ Setup
    \/ CallWrapper
    \/ Return
    \/ AttemptBadMethod
    \/ AttemptTransport
    \/ AttemptResponse

Spec == Init /\ [][Next]_vars

-----------------------------------------------------------------------------
(* The loop over the executor: calls of request_looper after one setup() *)

\* setup() has been called once
InitAfterSetup ==
    /\ \E lv \in LooperLevels :
          /\ HEADERS = [isNone |-> FALSE,
                        dict |-> DictSet(DictSet({}, "x-app-id", "app-1"),
                                         "x-api-key", "key-1")]
          /\ BASE_URL = "https://customer.api.soundcharts.com"
          /\ MAX_RETRIES = LOAD_MAX_RETRIES
          /\ RETRY_DELAY = LOAD_RETRY_DELAY
          /\ EXCEPTION_LOG_LEVEL = lv
    /\ InitWrapper
    /\ InitLooper
    /\ InitSorter
    /\ InitExtractor

NextLooper ==
    \/ LooperCall
    \/ AttemptResponse
    \/ LooperResume
    \/ LooperReturn

SpecLooper == InitAfterSetup /\ [][NextLooper]_vars

\* The same with calls without a body against a server whose pages hold at
\* most one item and the larger page.total, and with the progress the interpreter gives a running call: a request that
\* was sent is answered, and request_looper goes on once request_wrapper has
\* come back.
SmallPages ==
    /\ ~Truthy(l_in.body)
    /\ Len(w_result.payload.items) <= 1
    /\ w_result.payload.hasPage => w_result.payload.total = 4

SpecLooperLive ==
    /\ InitAfterSetup
    /\ [][NextLooper /\ SmallPages']_vars
    /\ WF_vars(AttemptResponse)
    /\ WF_vars(LooperResume)

-----------------------------------------------------------------------------
(* The sorter alone: calls of sort_items_by_date on one result *)

InitSort ==
    /\ InitConfig
    /\ InitWrapper
    /\ InitLooper
    /\ s_input \in SortInputs
    /\ s_result = s_input
    /\ s_runs = <<>>
    /\ InitExtractor

NextSort == SortCall

SpecSort == InitSort /\ [][NextSort]_vars

-----------------------------------------------------------------------------
(* The message extraction alone: lines 155-163 on one error body *)

\* the messages and raw texts an error body may hold
BodyMessages == {"", "Access denied", THROTTLE_TEXT}
BodyTexts == {"Bad Gateway", "raw:Access denied", "raw:" \o THROTTLE_TEXT}

\* the error bodies: texts that do not decode, and JSON objects with every
\* state of the errors array and of the top-level message
AllErrorBodies ==
    {[json |-> FALSE, errors |-> "absent", errmsg |-> "", topmsg |-> "",
      text |-> t] : t \in BodyTexts}
    \cup {[json |-> TRUE, errors |-> e, errmsg |-> "", topmsg |-> m, text |-> t] :
            e \in {"absent", "empty", "nomsg"}, m \in BodyMessages,
            t \in BodyTexts}
    \cup {[json |-> TRUE, errors |-> "msg", errmsg |-> em, topmsg |-> m,
           text |-> t] :
            em \in BodyMessages, m \in BodyMessages, t \in BodyTexts}

\* lines 155-163 on the body received
ExtractCall ==
    /\ ~m_done
    /\ m_message' = ExtractMessage(m_body)
    /\ m_done' = TRUE
    /\ UNCHANGED <<cvars, wvars, lvars, svars, m_body>>

InitMessage ==
    /\ InitConfig
    /\ InitWrapper
    /\ InitLooper
    /\ InitSorter
    /\ m_body \in AllErrorBodies
    /\ m_message = ""
    /\ m_done = FALSE

NextMessage == ExtractCall

SpecMessage == InitMessage /\ [][NextMessage]_vars

-----------------------------------------------------------------------------
(* Properties of request_wrapper *)

\* C1: a 200 response ends the call: the call returns the decoded payload of
\* that response unchanged, and the request that received it is the last
\* entry of the trace (no request and no sleep follows it).
C1_SuccessReturnsPayload ==
    /\ \A i \in ReqIdx : w_log[i].branch = "ok" => EndsCall(i)
    /\ (Running /\ w_response.status = HTTP_OK) =>
          /\ w_pc = "done"
          /\ w_result.kind = "payload"
          /\ w_result.payload = w_response.payload
          /\ ResponseIsLast /\ LastReq.branch = "ok"

\* a call that succeeded on a later attempt, after retries, with an envelope
C1_Witness ==
    /\ w_pc = "done" /\ w_response.status = HTTP_OK
    /\ w_result.kind = "payload" /\ w_result.payload.hasItems
    /\ w_attempt >= 2 /\ NumSleeps >= 1

\* C2: when every attempt of a call got a 500, 502, 503 or 504, the call
\* issued exactly max_retries requests and ended in the exhaustion failure: no
\* payload, and RuntimeError when the exception threshold is the default ERROR.
C2_ServerErrorsExhaustRetries ==
    EveryAttempt("server_error") =>
        /\ NumRequests = w_args.max_retries
        /\ w_result.why = "exhausted"
        /\ w_result.kind # "payload"
        /\ EXCEPTION_LOG_LEVEL = ERROR => w_result.kind = "RuntimeError"

\* five attempts (the default), every one answered with a server error
C2_Witness ==
    /\ EveryAttempt("server_error")
    /\ NumRequests = LOAD_MAX_RETRIES
    /\ w_args.given.max_retries = NONE
    /\ EXCEPTION_LOG_LEVEL = ERROR /\ w_result.kind = "RuntimeError"

\* C3: after setup(max_retries=N, retry_delay=D), a call that gives no
\* override makes at most N requests and sleeps D after each server error.
C3_SetupDefaultsUsed ==
    (Running /\ Configured /\ w_args.given.max_retries = NONE
             /\ w_args.given.retry_delay = NONE) =>
        /\ NumRequests <= MAX_RETRIES
        /\ \A i \in ReqIdx : w_log[i].branch = "server_error" =>
              (i < Len(w_log) /\ w_log[i + 1] = SleepEvent(RETRY_DELAY))

\* C4: a 404 response ends the call on that attempt with no sleep, and under
\* the default threshold (ERROR) the call returns None.
C4_NotFoundReturnsNone ==
    /\ \A i \in ReqIdx : w_log[i].branch = "not_found" => EndsCall(i)
    /\ (Running /\ w_response.status = HTTP_NOT_FOUND) =>
          /\ w_pc = "done"
          /\ ResponseIsLast /\ LastReq.branch = "not_found"
          /\ w_result.why = "404"
          /\ EXCEPTION_LOG_LEVEL = ERROR => w_result.kind = "None"

\* a 404 on a later attempt, swallowed under the default threshold
C4_Witness ==
    /\ w_pc = "done" /\ w_response.status = HTTP_NOT_FOUND
    /\ EXCEPTION_LOG_LEVEL = ERROR /\ w_result.kind = "None"
    /\ w_attempt >= 1

\* the part of C5 about 401, 403 and the 429 without the request-count
\* pattern: the call ends on that attempt, with no sleep, in a failure
\* (RuntimeError, or None when the threshold is above ERROR)
AuthErrorEndsCall ==
    /\ \A i \in ReqIdx : w_log[i].branch = "auth" => EndsCall(i)
    /\ (Running /\ ResponseIsLast /\ w_response.status \in AuthStatuses
          /\ ~(w_response.status = HTTP_TOO_MANY_REQUESTS
               /\ HasRequestCountPattern(w_response.message))) =>
          /\ w_pc = "done"
          /\ LastReq.branch = "auth"
          /\ w_result.why = "auth"
          /\ w_result.kind = (IF ERROR >= EXCEPTION_LOG_LEVEL
                              THEN "RuntimeError" ELSE "None")

\* the response in w_response is a 429 with the request-count pattern
ThrottledNow ==
    /\ Running /\ ResponseIsLast
    /\ w_response.status = HTTP_TOO_MANY_REQUESTS
    /\ HasRequestCountPattern(w_response.message)

\* C5 as stated: a 429 with the request-count pattern is followed by a sleep
\* of 30 seconds and then by another attempt; any other 429 and any 403 or
\* 401 ends the call in a failure with no sleep and no further request.
C5_ThrottleAlwaysRetried ==
    /\ AuthErrorEndsCall
    /\ ThrottledNow => LastReq.branch = "throttle"
    /\ \A i \in ReqIdx : w_log[i].branch = "throttle" =>
          /\ i < Len(w_log) /\ w_log[i + 1] = SleepEvent(THROTTLE_SLEEP)
          /\ w_pc = "done" =>
                (i + 2 <= Len(w_log) /\ w_log[i + 2].ev = "request")

\* C5 amended: the sleep of 30 seconds is followed by another attempt when
\* the throttled attempt was not the last of the max_retries attempts; after
\* the last attempt the sleep is followed by the exhaustion failure.
C5_ThrottleRetriedWhileAttemptsRemain ==
    /\ AuthErrorEndsCall
    /\ ThrottledNow => LastReq.branch = "throttle"
    /\ \A i \in ReqIdx : w_log[i].branch = "throttle" =>
          /\ i < Len(w_log) /\ w_log[i + 1] = SleepEvent(THROTTLE_SLEEP)
          /\ w_pc = "done" =>
                IF i + 1 = Len(w_log)
                THEN w_result.why = "exhausted"
                     /\ NumRequests = w_args.max_retries
                ELSE w_log[i + 2].ev = "request"
          /\ (w_pc = "attempt" /\ i + 1 = Len(w_log)) =>
                w_attempt < w_args.max_retries

\* a throttled 429 followed by its sleep and a further request, in a call
\* that then ended on a 403
C5_Witness ==
    /\ w_pc = "done" /\ w_response.status = HTTP_FORBIDDEN
    /\ w_result.why = "auth"
    /\ \E i \in ReqIdx : /\ w_log[i].branch = "throttle"
                         /\ i + 2 = Len(w_log)
                         /\ w_log[i + 1] = SleepEvent(THROTTLE_SLEEP)

\* C6: a status that is none of 200, 404, 500/502/503/504, 429, 403, 401 ends
\* the call at once in an error that carries the status and the message.
C6_UnknownStatusFailsWithStatus ==
    (Running /\ ResponseIsLast
        /\ w_response.status \notin ({HTTP_OK, HTTP_NOT_FOUND}
                \cup ServerErrorStatuses \cup AuthStatuses)) =>
        /\ EndsCall(Len(w_log)) /\ w_log[Len(w_log)].ev = "request"
        /\ w_result.kind = "RuntimeError"
        /\ w_result.status = w_response.status
        /\ w_result.message = w_response.message

\* the method C7 says a call uses
C7_Expected(method, body) ==
    IF method = "None" THEN (IF Truthy(body) THEN "POST" ELSE "GET")
    ELSE IF Lower(method) = "get" THEN "GET"
    ELSE IF Lower(method) = "post" THEN "POST"
    ELSE "DELETE"

\* C7: an explicit GET, POST or DELETE is the method of the requests of the
\* call whatever the body; with no method a call with a body is a POST and a
\* call without one a GET.
C7_MethodSelection ==
    (Running /\ Configured /\ w_args.max_retries > 0
        /\ Lower(w_args.method) \in {"None", "get", "post", "delete"}) =>
        /\ w_result.kind # "ValueError"
        /\ \A i \in ReqIdx :
              w_log[i].method = C7_Expected(w_args.method, w_args.body)

\* an explicit method outside GET, POST and DELETE
Unsupported(method) ==
    Lower(method) \notin {"None", "get", "post", "delete"}

\* C8: a call with an explicit method outside GET/POST/DELETE issues no
\* request and sleeps never, and its first attempt raises ValueError, which
\* ends the call there (the retry loop does not consume it).
C8_UnsupportedMethodRaises ==
    (Running /\ Configured /\ Unsupported(w_args.method)) =>
        /\ w_log = <<>>
        /\ w_attempt = 0
        /\ (w_pc = "done" /\ w_args.max_retries > 0) =>
              (w_result.kind = "ValueError" /\ w_result.why = "method")

\* a call with method PUT and the default five attempts, ended by ValueError
C8_Witness ==
    /\ w_pc = "done" /\ Configured /\ w_args.method = "PUT"
    /\ w_args.max_retries = LOAD_MAX_RETRIES
    /\ w_result.kind = "ValueError"

\* C9: when every attempt of a call failed at transport level, the call made
\* exactly max_retries attempts and raised the transport failure, which
\* differs from the failure of exhausted HTTP retries and is raised under
\* every threshold; a transport failure on an attempt that is not the last
\* one is followed at once by the next request.
C9_TransportFailures ==
    /\ (EveryAttempt("transport") /\ ReqIdx # {}) =>
          /\ NumRequests = w_args.max_retries
          /\ w_result.kind = "RuntimeError"
          /\ w_result.why = "transport"
          /\ w_result.message # Exhausted.message
    /\ \A i \in ReqIdx : w_log[i].branch = "transport" =>
          IF i = Len(w_log)
          THEN \/ w_pc = "attempt" /\ w_attempt < w_args.max_retries
               \/ w_pc = "done" /\ w_result.why = "transport"
                  /\ w_attempt = w_args.max_retries - 1
          ELSE w_log[i + 1].ev = "request"

\* five transport failures in a row under a threshold above ERROR, where the
\* exhaustion of HTTP retries would return None
C9_Witness ==
    /\ EveryAttempt("transport")
    /\ NumRequests = LOAD_MAX_RETRIES
    /\ EXCEPTION_LOG_LEVEL = CRITICAL
    /\ w_result.kind = "RuntimeError" /\ w_result.why = "transport"

\* request_looper has returned a value to its caller
LooperReturned == l_pc = "done" /\ l_result.kind = "return"

\* every response the call has merged was an envelope with an items list
OnlyPages ==
    \A i \in DOMAIN l_fetched : is_empty(l_fetched[i]) \/ l_fetched[i].hasItems

\* items of a more recent window come before those of an older one
RecentWindowsFirst(items) ==
    \A i, j \in DOMAIN items :
        (i < j /\ ~items[i].win.isNone /\ ~items[j].win.isNone)
            => items[i].win.day >= items[j].win.day

\* C10: when request_looper is called without a limit and every page it
\* receives is an envelope, the items it returns are the items of the pages in
\* the order the pages were fetched, page after page and window after window,
\* nothing dropped, duplicated or reordered, and the items of a more recent
\* window precede those of an older one.
C10_PagesMergedInOrder ==
    (LooperReturned /\ ~LimitSet(l_in.params.dict.limit) /\ OnlyPages)
        => /\ l_result.value.items = ItemsOf(l_fetched)
           /\ RecentWindowsFirst(l_result.value.items)

\* a call without limit has merged two chained pages of one window and a page
\* of an older window, each with items
C10_Witness ==
    /\ LooperReturned /\ ~LimitSet(l_in.params.dict.limit) /\ OnlyPages
    /\ Len(l_fetched) = 3
    /\ \A i \in 1..3 : l_fetched[i].items # <<>>
    /\ l_fetched[1].next # ""
    /\ l_calls[2].endpoint = l_fetched[1].next
    /\ l_fetched[3].items[1].win.day < l_fetched[1].items[1].win.day
    /\ l_result.value.items = ItemsOf(l_fetched)

\* the limit the caller passed to request_looper
CallerLimit == l_in.params.dict.limit

\* C11: with a positive limit L the list request_looper returns never has more
\* than L items, and when the pages it merged hold at least L items it is
\* exactly the first L of them in the order they were fetched.
C11_LimitTruncates ==
    (LooperReturned /\ CallerLimit > 0)
        => /\ Len(l_result.value.items) <= CallerLimit
           /\ (OnlyPages /\ Len(ItemsOf(l_fetched)) >= CallerLimit)
                => l_result.value.items
                     = SubSeq(ItemsOf(l_fetched), 1, CallerLimit)

\* a call with limit 3 has merged two pages holding four items and returned
\* the first three
C11_Witness ==
    /\ LooperReturned /\ CallerLimit = 3 /\ OnlyPages
    /\ Len(l_fetched) = 2
    /\ Len(ItemsOf(l_fetched)) = 4
    /\ Len(l_result.value.items) = 3

\* the number of items merged from the first k responses of the call
MergedCount(k) == Len(ItemsOf(SubSeq(l_fetched, 1, k)))

\* C12: with a positive limit L, once the responses merged so far hold L items
\* or more, request_looper issues no further request, neither for the next
\* page nor for an older window; a first page of at least L items is the only
\* request of the call.
C12_NoRequestAfterLimit ==
    (CallerLimit > 0 /\ OnlyPages)
        => \A k \in DOMAIN l_fetched :
              MergedCount(k) >= CallerLimit => Len(l_calls) <= k

\* a call with limit 1 over two windows got a first page of two items with a
\* cursor to a next page, and returned after that single request
C12_Witness ==
    /\ LooperReturned /\ CallerLimit = 1
    /\ l_in.handle_period /\ l_in.params.dict.startDate = Date(100)
    /\ Len(l_fetched) = 1 /\ Len(l_calls) = 1
    /\ Len(l_fetched[1].items) = 2 /\ l_fetched[1].next # ""

\* C13: with limit 0 or None nothing is truncated: every page that names a
\* next cursor is followed by a request for that cursor, and the returned list
\* holds every item of every page fetched.
C13_NoLimitNoTruncation ==
    (CallerLimit \in {NONE, 0} /\ OnlyPages)
        => /\ \A k \in DOMAIN l_fetched :
                l_fetched[k].next # ""
                    => /\ Len(l_calls) > k
                       /\ l_calls[k + 1].endpoint = l_fetched[k].next
           /\ LooperReturned
                => /\ l_fetched # <<>> => l_fetched[Len(l_fetched)].next = ""
                   /\ l_result.value.items = ItemsOf(l_fetched)

\* a call with limit 0 followed a cursor and returned all four items of its
\* two pages
C13_Witness ==
    /\ LooperReturned /\ CallerLimit = 0 /\ OnlyPages
    /\ Len(l_fetched) = 2
    /\ l_fetched[1].next # "" /\ l_calls[2].endpoint = l_fetched[1].next
    /\ Len(l_result.value.items) = 4

\* the requests of the call that open a window: they carry the parameters
WindowCalls == {i \in DOMAIN l_calls : ~l_calls[i].options.isNone}

\* the window [startDate, endDate] sent with request i
WindowOf(i) == [first |-> l_calls[i].options.dict.startDate.day,
                last |-> l_calls[i].options.dict.endDate.day]

\* request_looper was called with both dates, startDate <= endDate, with
\* period-splitting and no limit, and has returned
RangeQueried ==
    /\ LooperReturned /\ l_in.handle_period /\ ~LimitSet(CallerLimit)
    /\ ~l_in.params.dict.startDate.isNone /\ ~l_in.params.dict.endDate.isNone
    /\ l_in.params.dict.startDate.day <= l_in.params.dict.endDate.day

\* C14: every day of the caller's [startDate, endDate] lies in the range of
\* exactly one window the call has queried: no gap, the first day included,
\* and no overlap.
C14_WindowsCoverRange ==
    RangeQueried
        => \A day \in l_in.params.dict.startDate.day
                       .. l_in.params.dict.endDate.day :
              Cardinality({i \in WindowCalls :
                              WindowOf(i).first <= day
                              /\ day <= WindowOf(i).last}) = 1

\* request_looper is running or done with period-splitting on an endDate
Splitting ==
    l_pc # "idle" /\ l_in.handle_period /\ ~l_in.params.dict.endDate.isNone

\* j is the window queried next after window i
NextWindow(i, j) ==
    /\ i \in WindowCalls /\ j \in WindowCalls /\ i < j
    /\ ~\E k \in WindowCalls : i < k /\ k < j

\* C15: with period-splitting, every window sent spans at most 90 days, none
\* starts before the caller's startDate, and each window after the first ends
\* the day before the window queried before it starts, so the windows go
\* strictly back in time.
C15_WindowsBoundedAndDescending ==
    Splitting
        => /\ \A i \in WindowCalls :
                /\ WindowOf(i).last - WindowOf(i).first <= WINDOW_DAYS
                /\ ~l_in.params.dict.startDate.isNone
                      => WindowOf(i).first >= l_in.params.dict.startDate.day
           /\ \A i, j \in WindowCalls :
                NextWindow(i, j)
                    => /\ WindowOf(j).last = WindowOf(i).first - 1
                       /\ WindowOf(j).last < WindowOf(i).last
                       /\ WindowOf(j).first < WindowOf(i).first

\* a range of 101 days has been queried as a window of 90 days and then the
\* window of the ten days before it
C15_Witness ==
    /\ Splitting /\ LooperReturned
    /\ Cardinality(WindowCalls) = 2
    /\ \E i, j \in WindowCalls :
         /\ NextWindow(i, j)
         /\ WindowOf(i) = [first |-> 110, last |-> 200]
         /\ WindowOf(j) = [first |-> 100, last |-> 109]

\* request_wrapper has ended the looper's request with an exception
WrapperFailed ==
    l_pc = "wait" /\ w_pc = "done" /\ w_result.kind \notin {"payload", "None"}

\* C16: under the default threshold, when request_wrapper fails a request of
\* request_looper, on the first page or after pages were merged, the next
\* thing request_looper does is to end with that same failure: it issues no
\* further request and returns no value.
C16_FailurePropagates ==
    [][(WrapperFailed /\ EXCEPTION_LOG_LEVEL = ERROR)
          => /\ l_pc' = "done"
             /\ l_result' = [kind |-> "raise", exc |-> w_result.kind,
                             value |-> NoPayload]
             /\ l_calls' = l_calls]_vars

\* under the default threshold a call that had merged a page with items has
\* ended with the RuntimeError of a later request
C16_Witness ==
    /\ EXCEPTION_LOG_LEVEL = ERROR
    /\ l_pc = "done" /\ l_result.kind = "raise" /\ l_result.exc = "RuntimeError"
    /\ l_result.value = NoPayload
    /\ Len(l_fetched) >= 1 /\ l.results.items # <<>>
    /\ Len(l_calls) = Len(l_fetched) + 1

\* under the default threshold every request of the call was answered 404:
\* request_wrapper gave None each time and request_looper has ended
ResourceNotFound ==
    /\ l_pc = "done" /\ EXCEPTION_LOG_LEVEL = ERROR
    /\ l_fetched # <<>>
    /\ \A i \in DOMAIN l_fetched : l_fetched[i].isNone

\* C17: under default settings a call for a resource the API answers 404 for
\* gives the empty mapping, from the functions that return the looper's
\* result as it is and from those that sort it by date; none raises.
C17_NotFoundGivesEmptyMapping ==
    (ResourceNotFound /\ l_in.params.dict.startDate.isNone)
        => /\ get_radios = Gives(EmptyPayload)
           /\ get_audience = Gives(EmptyPayload)

\* what a call gives under the threshold when its failure has the severity:
\* RuntimeError iff the threshold is at or below the severity, else None
Gated(severity) ==
    IF EXCEPTION_LOG_LEVEL <= severity THEN "RuntimeError" ELSE "None"

\* the finished call ended on a response that took branch b
EndedOn(b) ==
    /\ w_pc = "done" /\ Configured
    /\ ResponseIsLast /\ LastReq.branch = b /\ EndsCall(Len(w_log))

\* the finished call used up all its attempts: each of its max_retries
\* requests met a server error, the throttle or a transport failure
AttemptsExhausted ==
    /\ w_pc = "done" /\ Configured /\ w_result.why # "method"
    /\ NumRequests = w_args.max_retries
    /\ \A i \in ReqIdx :
         w_log[i].branch \in {"server_error", "throttle", "transport"}

\* C18 as stated: a 404 raises iff the threshold is <= WARNING, a 401, 403 or
\* other 429 and every exhaustion of the attempts raise iff it is <= ERROR;
\* otherwise the call gives None.
C18_ThresholdGatesRaising ==
    /\ EndedOn("not_found") => w_result.kind = Gated(WARNING)
    /\ EndedOn("auth") => w_result.kind = Gated(ERROR)
    /\ AttemptsExhausted => w_result.kind = Gated(ERROR)

\* C18, amended: a 404 raises iff the threshold is <= WARNING, a 401, 403 or
\* other 429 raises iff it is <= ERROR, and so does the exhaustion of the
\* attempts unless the last attempt failed in the transport; then the call
\* raises whatever the threshold.  Nothing but the threshold enters.
C18_ThresholdGatesHttpFailures ==
    /\ EndedOn("not_found") => w_result.kind = Gated(WARNING)
    /\ EndedOn("auth") => w_result.kind = Gated(ERROR)
    /\ AttemptsExhausted
          => w_result.kind = (IF ReqIdx # {} /\ LastReq.branch = "transport"
                              THEN "RuntimeError" ELSE Gated(ERROR))

\* under a threshold above ERROR a call whose attempts all met server errors
\* has given None
C18_Witness ==
    /\ AttemptsExhausted /\ EXCEPTION_LOG_LEVEL = CRITICAL
    /\ NumRequests >= 2 /\ LastReq.branch = "server_error"
    /\ w_result.kind = "None"

\* dictionary d holds under key k what the configured headers hold there
SameHeader(d, k) ==
    DictHas(d, k) /\ DictHas(HEADERS.dict, k)
        /\ DictGet(d, k) = DictGet(HEADERS.dict, k)

\* C19: every request of a call made after setup, the first attempt and each
\* retry, carries x-app-id and x-api-key with the values of the last setup().
C19_AuthHeadersOnEveryRequest ==
    (Running /\ Configured)
        => \A i \in ReqIdx :
              /\ SameHeader(w_log[i].headers, "x-app-id")
              /\ SameHeader(w_log[i].headers, "x-api-key")

\* a call with a body after setup(app_id="app-2") has sent its request three
\* times, each with the Content-Type and both credentials
C19_Witness ==
    /\ Running /\ Configured
    /\ DictGet(HEADERS.dict, "x-app-id") = "app-2"
    /\ NumRequests = 3
    /\ \A i \in ReqIdx :
         /\ DictHas(w_log[i].headers, "Content-Type")
         /\ DictGet(w_log[i].headers, "x-app-id") = "app-2"
         /\ DictGet(w_log[i].headers, "x-api-key") = "key-1"

-----------------------------------------------------------------------------
(* Properties of sort_items_by_date *)

\* the items in the opposite order
Reverse(seq) == [i \in 1..Len(seq) |-> seq[Len(seq) + 1 - i]]

\* the items call k left in the result
ItemsAfter(k) == s_runs[k].out.value.items

\* call k sorted ascending and call k + 1 sorted descending
AscThenDesc(k) ==
    /\ k \in 1..(Len(s_runs) - 1)
    /\ s_runs[k].out.kind = "return" /\ ~s_runs[k].reverse
    /\ s_runs[k + 1].out.kind = "return" /\ s_runs[k + 1].reverse

\* no two items of the list name the same instant
NoEqualDates(items) ==
    \A i, j \in DOMAIN items : i # j => SortKey(items[i]) # SortKey(items[j])

\* x comes before y in the list
Precedes(items, x, y) ==
    \E i, j \in DOMAIN items : i < j /\ items[i] = x /\ items[j] = y

\* C20 as stated: sorting ascending and then descending gives the reverse of
\* the ascending sequence, also when items share a date.
C20_DescendingReversesAscending ==
    \A k \in DOMAIN s_runs :
        AscThenDesc(k) => ItemsAfter(k + 1) = Reverse(ItemsAfter(k))

\* C20, amended: sorting ascending and then descending gives the same items
\* by non-increasing date, items of equal date in the order the ascending
\* sequence has them; it is the reverse of the ascending sequence when no two
\* items share a date.
C20_DescendingReversesDistinctDates ==
    \A k \in DOMAIN s_runs :
        AscThenDesc(k)
            => LET asc == ItemsAfter(k)
                   desc == ItemsAfter(k + 1)
               IN  /\ Len(desc) = Len(asc)
                   /\ {desc[i] : i \in DOMAIN desc} = {asc[i] : i \in DOMAIN asc}
                   /\ \A i, j \in DOMAIN desc :
                        i < j => /\ SortKey(desc[i]) >= SortKey(desc[j])
                                 /\ SortKey(desc[i]) = SortKey(desc[j])
                                       => Precedes(asc, desc[i], desc[j])
                   /\ NoEqualDates(asc) => desc = Reverse(asc)

\* a list of three items, two of them of one date and not in ascending
\* order, has been sorted ascending and then descending: the two keep their
\* order and the result is not the reverse
C20_Witness ==
    /\ Len(s_runs) = 2 /\ AscThenDesc(1)
    /\ Len(s_input.items) = 3
    /\ ~NoEqualDates(s_input.items)
    /\ ItemsAfter(1) # s_input.items
    /\ ItemsAfter(2) # Reverse(ItemsAfter(1))
    /\ \E i \in 1..2 : ItemsAfter(2)[i].date.t > ItemsAfter(2)[i + 1].date.t

\* calls k and k + 1 sorted in the same direction
SameDirectionTwice(k) ==
    /\ k \in 1..(Len(s_runs) - 1)
    /\ s_runs[k].out.kind = "return" /\ s_runs[k + 1].out.kind = "return"
    /\ s_runs[k].reverse = s_runs[k + 1].reverse

\* C21: sorting a result a second time in the same direction leaves the items
\* as the first sort put them, also when items share a date.
C21_SortIdempotent ==
    \A k \in DOMAIN s_runs :
        SameDirectionTwice(k) => ItemsAfter(k + 1) = ItemsAfter(k)

\* a list of three items with two of one date, not in descending order, has
\* been sorted descending twice
C21_Witness ==
    /\ Len(s_runs) = 2 /\ SameDirectionTwice(1) /\ s_runs[1].reverse
    /\ Len(s_input.items) = 3
    /\ ~NoEqualDates(s_input.items)
    /\ ItemsAfter(1) # s_input.items
    /\ ItemsAfter(2) = ItemsAfter(1)

\* the items of the result when call k was made
ItemsBefore(k) == IF k = 1 THEN s_input.items ELSE ItemsAfter(k - 1)

\* the fields of a result other than its items
OtherFields(result) == [result EXCEPT !.items = <<>>]

\* the items are in the order asked for
Ordered(items, reverse) ==
    \A i, j \in DOMAIN items :
        i < j => IF reverse THEN SortKey(items[i]) >= SortKey(items[j])
                 ELSE SortKey(items[i]) <= SortKey(items[j])

\* C22: after sort_items_by_date has returned, the items of the result are
\* the items it had before, each once, by non-decreasing date when reverse is
\* false and non-increasing date when it is true, and every other field of
\* the result is as it was.
C22_SortPermutesAndOrders ==
    \A k \in DOMAIN s_runs :
        s_runs[k].out.kind = "return"
            => /\ Len(ItemsAfter(k)) = Len(ItemsBefore(k))
               /\ {ItemsAfter(k)[i] : i \in DOMAIN ItemsAfter(k)}
                     = {ItemsBefore(k)[i] : i \in DOMAIN ItemsBefore(k)}
               /\ Ordered(ItemsAfter(k), s_runs[k].reverse)
               /\ OtherFields(s_runs[k].out.value) = OtherFields(s_input)
               /\ k = Len(s_runs) => s_result = s_runs[k].out.value

\* a list of three items of three dates, latest first, has been sorted
\* ascending
C22_Witness ==
    /\ Len(s_runs) = 1 /\ s_runs[1].out.kind = "return" /\ ~s_runs[1].reverse
    /\ Len(s_input.items) = 3 /\ NoEqualDates(s_input.items)
    /\ ~Ordered(s_input.items, FALSE)
    /\ Ordered(s_result.items, FALSE)
    /\ s_result.tag = s_input.tag /\ s_result.total = s_input.total

-----------------------------------------------------------------------------
(* Properties of the message extraction *)

\* the message of the first element of the errors array, "" if there is none
FirstErrorMessage(b) == IF b.json /\ b.errors = "msg" THEN b.errmsg ELSE ""

\* the top-level message, "" if there is none
TopMessage(b) == IF b.json THEN b.topmsg ELSE ""

\* C23 as stated: the message is that of the first element of the errors
\* array; else the top-level message, also when the errors array is empty or
\* its first element has no message; else the raw body text.
C23_MessagePreference ==
    m_done
        => m_message = (IF FirstErrorMessage(m_body) # ""
                        THEN FirstErrorMessage(m_body)
                        ELSE IF TopMessage(m_body) # "" THEN TopMessage(m_body)
                        ELSE m_body.text)

\* C23, amended: as stated, except that a body whose errors array is present
\* and empty gives the raw body text, whether or not it has a top-level
\* message.
C23_MessagePreferenceUnlessEmptyErrors ==
    m_done
        => m_message = (IF m_body.json /\ m_body.errors = "empty"
                        THEN m_body.text
                        ELSE IF FirstErrorMessage(m_body) # ""
                        THEN FirstErrorMessage(m_body)
                        ELSE IF TopMessage(m_body) # "" THEN TopMessage(m_body)
                        ELSE m_body.text)

\* a body with an empty errors array and a top-level message has given its
\* raw text
C23_Witness ==
    /\ m_done /\ m_body.json /\ m_body.errors = "empty"
    /\ m_body.topmsg = "Access denied"
    /\ m_message = m_body.text /\ m_message # m_body.topmsg

-----------------------------------------------------------------------------
(* Properties of request_looper, continued *)

\* request_looper was called with neither startDate nor endDate
Undated ==
    /\ l_pc # "idle"
    /\ l_in.params.dict.startDate.isNone /\ l_in.params.dict.endDate.isNone

\* a payload without the items and page keys
IsObject(p) == ~p.isNone /\ ~p.isEmpty /\ ~p.hasItems /\ ~p.hasPage

\* C24: a call with neither startDate nor endDate makes one pass of cursor
\* pagination: only its first request goes to the endpoint with parameters,
\* no startDate or endDate is added to them, every later request follows a
\* cursor, and a first response without items and page is returned as it is
\* after that one request.
C24_UndatedIsOnePass ==
    Undated
        => /\ \A i \in DOMAIN l_calls :
                IF i = 1
                THEN /\ l_calls[i].endpoint = ENDPOINT
                     /\ ~l_calls[i].options.isNone
                     /\ l_calls[i].options.dict.startDate.isNone
                     /\ l_calls[i].options.dict.endDate.isNone
                ELSE /\ l_calls[i].options.isNone
                     /\ l_calls[i].endpoint # ENDPOINT
                     /\ \E k \in 1..(i - 1) :
                          l_calls[i].endpoint = l_fetched[k].next
           /\ (l_fetched # <<>> /\ IsObject(l_fetched[1]))
                => /\ Len(l_calls) = 1
                   /\ LooperReturned
                   /\ l_result.value = l_fetched[1]

\* with period-splitting on and no dates, a call has fetched a page and the
\* page its cursor names, and returned after these two requests
C24_Witness ==
    /\ Undated /\ l_in.handle_period /\ LooperReturned
    /\ Len(l_calls) = 2 /\ Len(l_fetched) = 2
    /\ l_fetched[1].next # "" /\ l_calls[2].endpoint = l_fetched[1].next
    /\ l_fetched[2].hasItems /\ l_fetched[2].next = ""

-----------------------------------------------------------------------------
(* Properties of the configuration *)

\* the keys of a dictionary
Keys(d) == {p[1] : p \in d}

\* the configured headers are the two credentials and nothing else, and the
\* requests of a call carry Content-Type exactly when the call has a body
HeadersAsSetUp ==
    Configured
        => /\ Keys(HEADERS.dict) = {"x-app-id", "x-api-key"}
           /\ Running
                => \A i \in ReqIdx :
                      DictHas(w_log[i].headers, "Content-Type")
                          <=> Truthy(w_args.body)

\* C25: only setup() changes the base URL, the auth headers, the retry
\* defaults and the threshold; a call leaves them as they are, and the
\* Content-Type a call with a body sends is in its own headers only, never in
\* those of a call without a body.
C25_CallsLeaveConfiguration ==
    /\ []HeadersAsSetUp
    /\ [][Setup \/ UNCHANGED cvars]_vars

\* after setup a call without a body has sent its request twice with the two
\* credentials as its only headers, and the configuration is as set up
C25_Witness ==
    /\ Running /\ Configured /\ ~Truthy(w_args.body)
    /\ NumRequests = 2
    /\ \A i \in ReqIdx : Keys(w_log[i].headers) = {"x-app-id", "x-api-key"}
    /\ Keys(HEADERS.dict) = {"x-app-id", "x-api-key"}
    /\ MAX_RETRIES = 1 /\ EXCEPTION_LOG_LEVEL = WARNING

-----------------------------------------------------------------------------
(* Properties of request_wrapper, continued *)

\* C26: a call whose max_retries attempts all met a 5xx response has slept
\* the retry delay max_retries - 1 times, between the attempts, and not after
\* the last one.
C26_SleepsOnlyBetweenAttempts ==
    (EveryAttempt("server_error") /\ ReqIdx # {})
        => /\ NumRequests = w_args.max_retries
           /\ NumSleeps = w_args.max_retries - 1
           /\ w_log[Len(w_log)].ev = "request"

\* the outcomes after which the call goes to its next attempt
Retryable == {"server_error", "throttle", "transport"}

\* C27: the throttle cooldown uses up an attempt like every other retry:
\* whatever the order of 5xx, throttled 429 and transport failures, a call
\* issues at most max_retries requests, and when max_retries requests have
\* met such outcomes the call has ended with a failure (raised, or None above
\* the threshold).
C27_ThrottleConsumesAttempts ==
    (Running /\ Configured)
        => /\ NumRequests <= w_args.max_retries
           /\ w_pc = "attempt"
                => w_attempt < w_args.max_retries /\ NumRequests = w_attempt
           /\ (NumRequests = w_args.max_retries
               /\ \A i \in ReqIdx : w_log[i].branch \in Retryable)
                => /\ w_pc = "done"
                   /\ w_result.kind \in {"RuntimeError", "None"}
                   /\ w_result.why \in {"exhausted", "transport"}

\* a call with the default five attempts met the throttle, a server error
\* and a transport failure among them and ended on the fifth with the
\* exhaustion failure
C27_Witness ==
    /\ w_pc = "done" /\ Configured /\ w_args.given.max_retries = NONE
    /\ NumRequests = LOAD_MAX_RETRIES
    /\ \A b \in Retryable : \E i \in ReqIdx : w_log[i].branch = b
    /\ LastReq.branch = "throttle"
    /\ w_log[Len(w_log)] = SleepEvent(THROTTLE_SLEEP)
    /\ w_result.why = "exhausted"

\* the sleep the code performs after a request that took branch b
SleepAfter(b) ==
    CASE b = "server_error" -> w_args.retry_delay
      [] b = "throttle" -> THROTTLE_SLEEP
      [] OTHER -> NONE

\* C28: a call sleeps only after a 5xx response, for the retry delay of the
\* call, and after a throttled 429, for 30 seconds: every sleep directly
\* follows such a request with that duration, and a request that ended in
\* any other way (200, 404, 401/403/other 429, unclassified status, transport
\* failure) is followed by the next request or by the end of the call.
C28_SleepsOnlyAfter5xxAndThrottle ==
    (Running /\ Configured)
        => \A i \in DOMAIN w_log :
              IF w_log[i].ev = "sleep"
              THEN /\ i > 1 /\ w_log[i - 1].ev = "request"
                   /\ w_log[i].secs = SleepAfter(w_log[i - 1].branch)
              ELSE SleepAfter(w_log[i].branch) = NONE
                      => (i = Len(w_log) \/ w_log[i + 1].ev = "request")

\* a finished call slept the retry delay after a 5xx, 30 seconds after a
\* throttled 429, and re-attempted at once after a transport failure
C28_Witness ==
    /\ w_pc = "done" /\ Configured
    /\ w_args.retry_delay # THROTTLE_SLEEP
    /\ \E i \in ReqIdx : /\ w_log[i].branch = "server_error"
                         /\ w_log[i + 1] = SleepEvent(w_args.retry_delay)
    /\ \E i \in ReqIdx : /\ w_log[i].branch = "throttle"
                         /\ w_log[i + 1] = SleepEvent(THROTTLE_SLEEP)
    /\ \E i \in ReqIdx : /\ w_log[i].branch = "transport"
                         /\ i < Len(w_log) /\ w_log[i + 1].ev = "request"
    /\ LastReq.branch \in {"ok", "not_found", "auth"}
    /\ w_log[Len(w_log)].ev = "request"

\* the responses of the call that carry an items list, the first response
\* that is not empty, and the first and the last of those with items
ItemPages == {i \in DOMAIN l_fetched :
                 ~is_empty(l_fetched[i]) /\ l_fetched[i].hasItems}
FirstResponse ==
    CHOOSE i \in DOMAIN l_fetched :
        /\ ~is_empty(l_fetched[i])
        /\ \A j \in 1..(i - 1) : is_empty(l_fetched[j])
FirstPage == CHOOSE i \in ItemPages : \A j \in ItemPages : i <= j
LastPage == CHOOSE i \in ItemPages : \A j \in ItemPages : j <= i

\* request_looper has returned a result into which it merged two or more
\* responses
MergedSeveral ==
    /\ LooperReturned
    /\ Cardinality(ItemPages) >= 2
    /\ FirstResponse \in ItemPages

\* C29 as stated: after two or more responses were merged, the fields of the
\* result other than items are those of the first response received.
C29_FieldsOfFirstResponse ==
    MergedSeveral
        => /\ l_result.value.tag = l_fetched[FirstPage].tag
           /\ l_result.value.next = l_fetched[FirstPage].next

\* C29 amended: after two or more responses were merged, the fields of the
\* result other than items are those of the last response merged (its
\* page.total raised to the number of items merged, when that is larger);
\* the responses before it contribute only their items.
C29_FieldsOfLastResponse ==
    MergedSeveral
        => /\ l_result.value.tag = l_fetched[LastPage].tag
           /\ l_result.value.hasPage = l_fetched[LastPage].hasPage
           /\ l_result.value.next = l_fetched[LastPage].next
           /\ l_result.value.total = Max(l_fetched[LastPage].total,
                                         Len(ItemsOf(l_fetched)))

\* a result merged from three pages carries the fields of the third and the
\* items of all three
C29_Witness ==
    /\ MergedSeveral
    /\ Cardinality(ItemPages) = 3
    /\ ~LimitSet(CallerLimit)
    /\ l_fetched[FirstPage].next # ""
    /\ l_fetched[FirstPage].total # l_fetched[LastPage].total
    /\ l_result.value.tag = l_fetched[LastPage].tag
    /\ l_result.value.tag # l_fetched[FirstPage].tag
    /\ l_result.value.items = ItemsOf(l_fetched)
    /\ Len(l_fetched[FirstPage].items) > 0

\* the responses of the call that were empty: None or zero-length
EmptyAnswers == {i \in DOMAIN l_fetched : is_empty(l_fetched[i])}

\* the window request i belongs to, and the first day of the range the call
\* splits (90 days before endDate when the caller gave no startDate)
WindowAt(i) ==
    WindowOf(CHOOSE k \in WindowCalls :
                k <= i /\ \A j \in WindowCalls : j <= i => j <= k)
RangeStart ==
    IF l_in.params.dict.startDate.isNone
    THEN l_in.params.dict.endDate.day - PERIOD
    ELSE l_in.params.dict.startDate.day

Clamped(L) == IF L # NONE /\ L > 0 THEN Min(L, PAGE_LIMIT) ELSE L

\* the dates the window request i has to carry: the caller's own without
\* period-splitting; with it, the window ends on the caller's endDate or the
\* day before the window queried before started, and spans up to 90 days of
\* the range
WindowDue(i) ==
    IF ~Splitting
    THEN [startDate |-> l_in.params.dict.startDate,
          endDate |-> l_in.params.dict.endDate]
    ELSE LET last == IF \E k \in WindowCalls : k < i
                     THEN WindowAt(i - 1).first - 1
                     ELSE l_in.params.dict.endDate.day
         IN  [startDate |-> Date(Max(RangeStart, last - WINDOW_DAYS)),
              endDate |-> Date(last)]

\* the request the running request_wrapper call was entered for
CurrentCall == l_calls[Len(l_calls)]

\* C31: request_looper sends the first request of every window to the
\* endpoint path with all parameters (the clamped limit and the dates of the
\* window), every follow-up request to the page.next cursor of the response
\* before with no query parameters, and the caller's body on every request;
\* the requests request_wrapper puts on the wire carry just that.  (The cursor
\* is read from the accumulated result, which is the response before when the
\* pages are envelopes.)
C31_ParamsOnlyOnFirstRequest ==
    /\ OnlyPages => \A i \in DOMAIN l_calls :
          /\ l_calls[i].body = l_in.body
          /\ IF i \in WindowCalls
             THEN /\ l_calls[i].endpoint = ENDPOINT
                  /\ l_calls[i].options.dict =
                        [limit |-> Clamped(CallerLimit),
                         startDate |-> WindowDue(i).startDate,
                         endDate |-> WindowDue(i).endDate]
             ELSE /\ i > 1 /\ i - 1 \in DOMAIN l_fetched
                  /\ l_fetched[i - 1].next # ""
                  /\ l_calls[i].endpoint = l_fetched[i - 1].next
                  /\ l_calls[i].options.isNone
    /\ (l_pc = "wait" /\ w_args.caller = "looper")
          => \A j \in ReqIdx :
                /\ w_log[j].url = BASE_URL \o CurrentCall.endpoint
                /\ w_log[j].params = IF CurrentCall.options.isNone THEN NoParams
                                     ELSE CurrentCall.options.dict
                /\ w_log[j].data = Truthy(l_in.body)

\* a call with a body and a limit is on its second window: the first window
\* was asked for with parameters, its cursor without, and the request for the
\* second window, with the parameters of that window, has gone out
C31_Witness ==
    /\ l_pc = "wait" /\ Truthy(l_in.body) /\ CallerLimit = 3 /\ OnlyPages
    /\ WindowCalls = {1, 3} /\ Len(l_calls) = 3
    /\ l_calls[2].endpoint = l_fetched[1].next /\ l_calls[2].options.isNone
    /\ WindowOf(1) = [first |-> 110, last |-> 200]
    /\ WindowOf(3) = [first |-> 100, last |-> 109]
    /\ l_calls[3].options.dict.limit = 3
    /\ ReqIdx # {} /\ LastReq.url = BASE_URL \o ENDPOINT
    /\ LastReq.params = l_calls[3].options.dict /\ LastReq.data

\* the parameters a request of the call carried, if it carried any
WithParams == {i \in DOMAIN l_calls : ~l_calls[i].options.isNone}

DefaultedStart == Splitting /\ l_in.params.dict.startDate.isNone

\* C33: with period-splitting and an endDate but no startDate, the start
\* date is taken 90 days before the endDate, and the call queries exactly one
\* window, from that day to the endDate: no request is ever sent for another
\* window, and a call that returned has queried that one.
C33_DefaultStartGivesOneWindow ==
    DefaultedStart
        => /\ l.start_date = Date(l_in.params.dict.endDate.day - PERIOD)
           /\ WindowCalls \subseteq {1}
           /\ \A i \in WindowCalls :
                 WindowOf(i) = [first |-> l_in.params.dict.endDate.day - PERIOD,
                                last |-> l_in.params.dict.endDate.day]
           /\ LooperReturned => WindowCalls = {1}

\* such a call followed a cursor within its one window and returned without
\* having reached a limit
C33_Witness ==
    /\ DefaultedStart /\ LooperReturned /\ ~LimitSet(CallerLimit)
    /\ WindowCalls = {1} /\ Len(l_calls) = 2
    /\ WindowOf(1) = [first |-> 110, last |-> 200]
    /\ l_fetched[2].items # <<>>

\* page.total of a result is no less than the number of its items
TotalCoversItems(result) == result.hasPage => result.total >= Len(result.items)

\* C34: whenever the result request_looper accumulates has a page field,
\* its page.total is at least the number of its items, after every merge
\* step and in the result returned.
C34_TotalAtLeastItemCount ==
    /\ l_pc # "idle" => TotalCoversItems(l.results)
    /\ LooperReturned => TotalCoversItems(l_result.value)

\* the last page merged said total 1 while the result holds more items than
\* any total the server sent; the total returned is the item count
C34_Witness ==
    /\ LooperReturned /\ l_result.value.hasPage /\ Len(l_fetched) >= 2
    /\ l_fetched[LastPage].total = 1
    /\ \A i \in ItemPages : l_fetched[i].total < Len(l_result.value.items)
    /\ l_result.value.total = Len(l_result.value.items)

\* a call of request_looper is running; it has returned or raised
LooperRunning == l_pc = "wait"
LooperEnded == l_pc = "done"

\* C35: every call of request_looper ends, whatever the dates (startDate
\* before, equal to or after endDate, or absent) and the limit, when every
\* request comes back and the cursor chains are finite: each further pass of
\* the outer loop queries a window that ends strictly before the one before,
\* and no further pass is made once the end date is at or before the start
\* date.
C35_LooperTerminates ==
    /\ [](Splitting =>
            \A i, j \in WindowCalls :
               i < j => /\ WindowOf(j).last < WindowOf(i).last
                        /\ WindowOf(j).last > RangeStart)
    /\ LooperRunning ~> LooperEnded

\* a call over a range of two windows has followed a cursor in the first,
\* queried the second and returned
C35_Witness ==
    /\ LooperEnded /\ LooperReturned /\ Splitting
    /\ WindowCalls = {1, 3} /\ Len(l_calls) = 3 /\ Len(l_fetched) = 3
    /\ WindowOf(3).last < WindowOf(1).last
    /\ WindowOf(3).first = RangeStart

\* request_looper has ended after requests that were all answered with a
\* 200 payload
EndedAllAnswered ==
    /\ LooperEnded
    /\ Len(l_fetched) = Len(l_calls)
    /\ \A i \in DOMAIN l_fetched : ~l_fetched[i].isNone

\* C36: with period-splitting enabled, a call whose requests all succeeded
\* returns a value whatever dates are present; in particular with a
\* startDate and no endDate it returns the pages it fetched and raises
\* nothing.
C36_ReturnsForEveryDateCombination ==
    (EndedAllAnswered /\ l_in.handle_period) => LooperReturned

\* C37: request_looper never writes to the params mapping of its caller:
\* while it runs and after it has ended, the caller's limit, startDate and
\* endDate are the ones passed, although the parameters on the wire were
\* clamped and rewritten for each window.
C37_CallerParamsUntouched ==
    l_pc # "idle" => l_in.params = l_in.passed

\* a call with limit 150 over two windows sent limit=100 and the dates of
\* each window, and has ended with the caller's mapping as it was passed
C37_Witness ==
    /\ LooperReturned /\ Splitting
    /\ l_in.passed.dict = [limit |-> 150, startDate |-> Date(100),
                           endDate |-> Date(200)]
    /\ l_in.params = l_in.passed
    /\ Cardinality(WindowCalls) = 2
    /\ \A i \in WindowCalls :
          /\ l_calls[i].options.dict.limit = PAGE_LIMIT
          /\ l_calls[i].options.dict # l_in.passed.dict

\* request_wrapper has come back to request_looper with a value
HandedOver ==
    /\ l_pc = "wait" /\ w_pc = "done" /\ w_args.caller = "looper"
    /\ w_result.kind \in {"payload", "None"}

\* the set of the items of a list
Range(seq) == {seq[i] : i \in DOMAIN seq}

\* C38: what request_wrapper hands to request_looper is None or the decoded
\* payload of the 200 response its last request received, also after 5xx
\* answers were retried, so every item of the accumulated and of the returned
\* result is an item of a page handed over that way and none comes from an
\* error body.
C38_OnlyOkPayloadsReachLooper ==
    /\ HandedOver
          => /\ w_result.kind = "None" => w_result.payload = NoPayload
             /\ ~is_empty(w_result.payload)
                   => /\ w_result.kind = "payload"
                      /\ w_result.status = HTTP_OK
                      /\ LastReq.branch = "ok"
                      /\ w_response.status = HTTP_OK
                      /\ w_result.payload = w_response.payload
             /\ \A i \in ReqIdx : w_log[i].branch = "ok" => i = Len(w_log)
    /\ l_pc # "idle" => Range(l.results.items) \subseteq Range(ItemsOf(l_fetched))
    /\ LooperReturned
          => Range(l_result.value.items) \subseteq Range(ItemsOf(l_fetched))

\* a request of request_looper was answered 503 and retried, then answered
\* 200 with a page of items, and that page is what request_wrapper hands over
C38_Witness ==
    /\ HandedOver
    /\ NumRequests >= 2
    /\ w_log[1].branch = "server_error"
    /\ LastReq.branch = "ok"
    /\ w_result.payload.items # <<>>
    /\ w_result.payload = w_response.payload

====
